---- MODULE Spec2Model ----
(***************************************************************************)
(* A model of the FIRE simulator: the per-year portfolio state machine of  *)
(* fire_simulator.run_simulation and the batch orchestrators of            *)
(* export_data (run_monte_carlo, run_simulation_with_custom_returns,       *)
(* run_historical_sequence) with their mortality classification.           *)
(*                                                                         *)
(* Numbers.  The program computes with floats.  The model computes with    *)
(* fixed-point integers and only draws inputs that are dyadic rationals,   *)
(* on which the float operations of the program are exact:                 *)
(*   - a rate or fraction x (return_rate, inflation_rate, a threshold) is  *)
(*     the integer x * One;                                                *)
(*   - an amount of money m, and the inflation multiplier, is the integer  *)
(*     m * Unit, with Unit == One^MaxYears, so that MaxYears successive    *)
(*     multiplications by a rate leave no remainder.                       *)
(***************************************************************************)
EXTENDS Integers, Sequences, FiniteSets, TLC

\* ---------------------------------------------------------------- bounds
MaxYears == 3        \* longest return sequence of a single run
MaxTrials == 3       \* largest batch

\* ------------------------------------------------------ number encoding
One == 2             \* the rate 1.0 (rates are counted in halves)
None == -1           \* Python's None where an age is expected

RECURSIVE Pow(_, _)
Pow(b, n) == IF n = 0 THEN 1 ELSE b * Pow(b, n - 1)

Unit == Pow(One, MaxYears)          \* the amount 1.0 and the multiplier 1.0

Mul(x, rate) == (x * rate) \div One        \* x * rate, rate in fixed point
Scaled(amount, mult) == (amount * mult) \div Unit  \* amount * multiplier

Max(a, b) == IF a >= b THEN a ELSE b

StartAge == 47

\* ----------------------------------------------------------------- state
VARIABLES
    params,      \* the arguments of run_simulation (and the batch's params dict)
    years,       \* len(returns_sequence) of the run in progress
    sim,         \* the locals of run_simulation
    pc,          \* "idle" | "loop" | "returned"
    result,      \* the SimulationResult returned
    batch,       \* the orchestrator's arguments: kind, mortality, num_simulations
    results,     \* the orchestrator's results list
    death_ages,  \* the orchestrator's death_ages list
    outcomes,    \* what _classify_mortality_outcomes returned
    bpc          \* "idle" | "trials" | "classified"

vars == <<params, years, sim, pc, result, batch, results, death_ages, outcomes, bpc>>
simVars == <<params, years, sim, pc, result>>
batchVars == <<batch, results, death_ages, outcomes, bpc>>

\* ------------------------------------------------- income and windfalls
\* A variant in which a later matching phase overrides an earlier one.
RECURSIVE get_income_for_age_last_match(_, _)
get_income_for_age_last_match(age, income_phases) ==
    IF income_phases = <<>> THEN 0
    ELSE LET p == income_phases[Len(income_phases)]
         IN IF p.start_age <= age /\ age <= p.end_age
            THEN p.amount
            ELSE get_income_for_age_last_match(age, SubSeq(income_phases, 1, Len(income_phases) - 1))

RECURSIVE get_income_for_age(_, _)
get_income_for_age(age, income_phases) ==
    IF income_phases = <<>> THEN 0
    ELSE LET p == Head(income_phases)
         IN IF p.start_age <= age /\ age <= p.end_age
            THEN p.amount
            ELSE get_income_for_age(age, Tail(income_phases))

RECURSIVE get_windfall_for_age(_, _)
get_windfall_for_age(age, windfalls) ==
    IF windfalls = <<>> THEN 0
    ELSE LET w == Head(windfalls)
         IN (IF w.age = age THEN w.amount ELSE 0)
            + get_windfall_for_age(age, Tail(windfalls))

\* ------------------------------------------------------- one year's update
\* A variant without the `max(0, ...)`: income above expenses is saved.
simulate_single_year_signed(portfolio, return_rate, expenses, income) ==
    Mul(portfolio, One + return_rate) - (expenses - income)

simulate_single_year(portfolio, return_rate, expenses, income) ==
    LET portfolio_after_growth == Mul(portfolio, One + return_rate)
        net_withdrawal == Max(0, expenses - income)
    IN portfolio_after_growth - net_withdrawal

\* ------------------------------------------------------ emergency hustle
\* A variant that tests only `if emergency_hustle:`, not its 'enabled' flag.
HustleEnabledIgnoresFlag(emergency_hustle) ==
    emergency_hustle.present

\* `emergency_hustle and emergency_hustle.get('enabled', False)`
HustleEnabled(emergency_hustle) ==
    emergency_hustle.present /\ emergency_hustle.enabled

\* A variant that forgets the hustle_triggered flag: the hustle re-arms.
HustleShouldTriggerRearm(hustle_triggered, current_age, portfolio, starting_portfolio, h) ==
    /\ current_age <= h.trigger_age_max
    /\ portfolio < Mul(starting_portfolio, h.portfolio_threshold)

\* A variant with `<=`: a portfolio at the threshold triggers.
HustleShouldTriggerAtThreshold(hustle_triggered, current_age, portfolio, starting_portfolio, h) ==
    /\ ~hustle_triggered
    /\ current_age <= h.trigger_age_max
    /\ portfolio <= Mul(starting_portfolio, h.portfolio_threshold)

\* The trigger condition of the hustle, checked on the portfolio after the
\* year's windfall and before its growth.
HustleShouldTrigger(hustle_triggered, current_age, portfolio, starting_portfolio, h) ==
    /\ ~hustle_triggered
    /\ current_age <= h.trigger_age_max
    /\ portfolio < Mul(starting_portfolio, h.portfolio_threshold)

\* A variant with `>= 0`: income flows with the countdown at 0.
HustleIncomeFlowsAtZero(hustle_years_remaining) == hustle_years_remaining >= 0

\* `if hustle_years_remaining > 0`: hustle income is added this year
HustleIncomeFlows(hustle_years_remaining) == hustle_years_remaining > 0

\* ------------------------------------------------------- spending rules
\* `spending_rules and spending_rules.get('enabled', False) and
\*  hustle_years_remaining == 0`
SpendingRulesApply(spending_rules, hustle_years_remaining) ==
    /\ spending_rules.present
    /\ spending_rules.enabled
    /\ hustle_years_remaining = 0

\* A variant without the dead zone: recovery at the drop threshold.
NewSpendingStateNoHysteresis(spending_state, portfolio, starting_portfolio, current_age, rules) ==
    LET drop_threshold == Mul(starting_portfolio, rules.drop_threshold)
    IN IF portfolio < drop_threshold
       THEN (IF current_age >= rules.lean_age THEN "lean" ELSE "reduced")
       ELSE "normal"

\* A variant with `current_age > lean_age`: lean mode starts a year late.
NewSpendingStateLateLean(spending_state, portfolio, starting_portfolio, current_age, rules) ==
    LET drop_threshold == Mul(starting_portfolio, rules.drop_threshold)
        recovery_threshold == Mul(starting_portfolio, rules.recovery_threshold)
    IN IF portfolio < drop_threshold
       THEN (IF current_age > rules.lean_age THEN "lean" ELSE "reduced")
       ELSE IF portfolio >= recovery_threshold
            THEN "normal"
            ELSE spending_state

\* A variant with the age test turned round: lean up to lean_age, reduced
\* after it.
NewSpendingStateLeanFirst(spending_state, portfolio, starting_portfolio, current_age, rules) ==
    LET drop_threshold == Mul(starting_portfolio, rules.drop_threshold)
        recovery_threshold == Mul(starting_portfolio, rules.recovery_threshold)
    IN IF portfolio < drop_threshold
       THEN (IF current_age <= rules.lean_age THEN "lean" ELSE "reduced")
       ELSE IF portfolio >= recovery_threshold
            THEN "normal"
            ELSE spending_state

NewSpendingState(spending_state, portfolio, starting_portfolio, current_age, rules) ==
    LET drop_threshold == Mul(starting_portfolio, rules.drop_threshold)
        recovery_threshold == Mul(starting_portfolio, rules.recovery_threshold)
    IN IF portfolio < drop_threshold
       THEN (IF current_age >= rules.lean_age THEN "lean" ELSE "reduced")
       ELSE IF portfolio >= recovery_threshold
            THEN "normal"
            ELSE spending_state

\* A variant whose normal spending is the nominal annual_expenses, without
\* the inflation multiplier.
ExpensesForStateNominal(spending_state, rules, annual_expenses_base, inflation_multiplier) ==
    IF spending_state = "lean"
    THEN Scaled(rules.lean_spending, inflation_multiplier)
    ELSE IF spending_state = "reduced"
         THEN Scaled(rules.reduced_spending, inflation_multiplier)
         ELSE annual_expenses_base

\* The expenses of an evaluated year, by spending state (lines 217-222)
ExpensesForState(spending_state, rules, annual_expenses_base, inflation_multiplier) ==
    IF spending_state = "lean"
    THEN Scaled(rules.lean_spending, inflation_multiplier)
    ELSE IF spending_state = "reduced"
         THEN Scaled(rules.reduced_spending, inflation_multiplier)
         ELSE Scaled(annual_expenses_base, inflation_multiplier)

\* A variant without `if new_state != spending_state`: every evaluated year
\* is logged.
LogTransitionEveryYear(spending_changes, spending_state, new_state, current_age, portfolio) ==
    Append(spending_changes,
           [age |-> current_age, from |-> spending_state,
            to |-> new_state, portfolio |-> portfolio])

\* `if new_state != spending_state: spending_changes.append({...})`
LogTransition(spending_changes, spending_state, new_state, current_age, portfolio) ==
    IF new_state # spending_state
    THEN Append(spending_changes,
                [age |-> current_age, from |-> spending_state,
                 to |-> new_state, portfolio |-> portfolio])
    ELSE spending_changes

\* ------------------------------------------------------- run_simulation
\* The locals of run_simulation before the loop.  The fields from
\* current_age on are the loop body's locals of the latest iteration.
InitSim(P) ==
    [ portfolio              |-> P.starting_portfolio,
      expenses               |-> P.annual_expenses,
      portfolio_values       |-> <<P.starting_portfolio>>,
      ages                   |-> <<P.start_age>>,
      ruin_age               |-> None,
      inflation_multiplier   |-> Unit,
      hustle_triggered       |-> FALSE,
      hustle_activation_age  |-> None,
      hustle_years_remaining |-> 0,
      spending_state         |-> "normal",
      spending_changes       |-> <<>>,
      spending_reduced       |-> FALSE,
      spending_went_lean     |-> FALSE,
      year_index             |-> 0,
      current_age            |-> P.start_age,
      return_rate            |-> 0,
      windfall               |-> 0,
      checked_portfolio      |-> P.starting_portfolio,
      income                 |-> 0,
      extra_hustle_income    |-> 0,
      year_expenses          |-> P.annual_expenses,
      hustle_income_added    |-> FALSE,
      rules_evaluated        |-> FALSE ]

\* remaining_years zeros appended to portfolio_values at ruin
RECURSIVE Zeros(_)
Zeros(n) == IF n <= 0 THEN <<>> ELSE <<0>> \o Zeros(n - 1)

\* A variant that starts the padding at current_age: range(current_age, ...)
RECURSIVE AgeRangeFromCurrent(_, _)
AgeRangeFromCurrent(from, n) ==
    IF n <= 0 THEN <<>> ELSE <<from - 1>> \o AgeRangeFromCurrent(from + 1, n - 1)

\* range(current_age + 1, current_age + remaining_years + 1) as a list
RECURSIVE AgeRange(_, _)
AgeRange(from, n) == IF n <= 0 THEN <<>> ELSE <<from>> \o AgeRange(from + 1, n - 1)

\* A variant with `< 0`: a portfolio of exactly 0 is not ruin.
IsRuinBelowZero(portfolio) == portfolio < 0

\* The ruin test of the loop
IsRuin(portfolio) == portfolio <= 0

\* One iteration of the loop `for year_index, return_rate in
\* enumerate(returns_sequence)`, n == len(returns_sequence).
StepYear(s, P, n, return_rate) ==
    LET current_age == P.start_age + s.year_index + 1
        windfall == get_windfall_for_age(current_age, P.windfalls)
        portfolio1 == IF windfall > 0 THEN s.portfolio + windfall ELSE s.portfolio
        base_income == get_income_for_age(current_age, P.income_phases)
        income == Scaled(base_income, s.inflation_multiplier)
        \* emergency hustle
        h == P.emergency_hustle
        trigger == /\ HustleEnabled(h)
                   /\ HustleShouldTrigger(s.hustle_triggered, current_age,
                                          portfolio1, P.starting_portfolio, h)
        hustle_triggered1 == s.hustle_triggered \/ trigger
        hustle_activation_age1 == IF trigger THEN current_age ELSE s.hustle_activation_age
        remaining1 == IF trigger THEN h.duration ELSE s.hustle_years_remaining
        hustle_active == HustleEnabled(h) /\ HustleIncomeFlows(remaining1)
        extra_hustle_income ==
            IF hustle_active THEN Scaled(h.extra_income, s.inflation_multiplier) ELSE 0
        remaining2 == IF hustle_active THEN remaining1 - 1 ELSE remaining1
        \* dynamic spending rules
        rules == P.spending_rules
        evaluated == SpendingRulesApply(rules, remaining2)
        new_state ==
            IF evaluated
            THEN NewSpendingState(s.spending_state, portfolio1, P.starting_portfolio,
                                  current_age, rules)
            ELSE s.spending_state
        spending_changes1 ==
            IF evaluated
            THEN LogTransition(s.spending_changes, s.spending_state, new_state,
                               current_age, portfolio1)
            ELSE s.spending_changes
        spending_reduced1 ==
            s.spending_reduced \/ (evaluated /\ new_state \in {"reduced", "lean"})
        spending_went_lean1 ==
            s.spending_went_lean \/ (evaluated /\ new_state = "lean")
        expenses1 ==
            IF evaluated
            THEN ExpensesForState(new_state, rules, P.annual_expenses,
                                  s.inflation_multiplier)
            ELSE s.expenses
        \* this year's growth and withdrawal
        portfolio2 == simulate_single_year(portfolio1, return_rate, expenses1,
                                           income + extra_hustle_income)
        ruined == IsRuin(portfolio2)
        remaining_years == n - s.year_index - 1
    IN [ portfolio              |-> portfolio2,
         expenses               |-> IF ruined THEN expenses1
                                    ELSE Mul(expenses1, One + P.inflation_rate),
         portfolio_values       |-> IF ruined
                                    THEN Append(s.portfolio_values, portfolio2)
                                         \o Zeros(remaining_years)
                                    ELSE Append(s.portfolio_values, portfolio2),
         ages                   |-> IF ruined
                                    THEN Append(s.ages, current_age)
                                         \o AgeRange(current_age + 1, remaining_years)
                                    ELSE Append(s.ages, current_age),
         ruin_age               |-> IF ruined THEN current_age ELSE None,
         inflation_multiplier   |-> IF ruined THEN s.inflation_multiplier
                                    ELSE Mul(s.inflation_multiplier, One + P.inflation_rate),
         hustle_triggered       |-> hustle_triggered1,
         hustle_activation_age  |-> hustle_activation_age1,
         hustle_years_remaining |-> remaining2,
         spending_state         |-> new_state,
         spending_changes       |-> spending_changes1,
         spending_reduced       |-> spending_reduced1,
         spending_went_lean     |-> spending_went_lean1,
         year_index             |-> s.year_index + 1,
         current_age            |-> current_age,
         return_rate            |-> return_rate,
         windfall               |-> windfall,
         checked_portfolio      |-> portfolio1,
         income                 |-> income,
         extra_hustle_income    |-> extra_hustle_income,
         year_expenses          |-> expenses1,
         hustle_income_added    |-> hustle_active,
         rules_evaluated        |-> evaluated ]

\* A variant without the `break`: the loop runs on after ruin.
LoopDoneNoBreak(s, n) == s.year_index >= n

\* The loop ends when the sequence is exhausted or at the `break` after ruin.
LoopDone(s, n) == s.year_index >= n \/ s.ruin_age # None

Last(seq) == seq[Len(seq)]

\* A variant that returns the log as it is: an empty list, not None.
SimulationResultWithEmptyLog(s) ==
    [ portfolio_values      |-> s.portfolio_values,
      ages                  |-> s.ages,
      ruin_age              |-> s.ruin_age,
      final_portfolio       |-> Last(s.portfolio_values),
      hustle_activated      |-> s.hustle_triggered,
      hustle_activation_age |-> s.hustle_activation_age,
      spending_reduced      |-> s.spending_reduced,
      spending_went_lean    |-> s.spending_went_lean,
      spending_changes      |-> [is_none |-> FALSE, items |-> s.spending_changes] ]

\* The SimulationResult built by the return statement.
SimulationResult(s) ==
    [ portfolio_values      |-> s.portfolio_values,
      ages                  |-> s.ages,
      ruin_age              |-> s.ruin_age,
      final_portfolio       |-> Last(s.portfolio_values),
      hustle_activated      |-> s.hustle_triggered,
      hustle_activation_age |-> s.hustle_activation_age,
      spending_reduced      |-> s.spending_reduced,
      spending_went_lean    |-> s.spending_went_lean,
      spending_changes      |-> [is_none |-> s.spending_changes = <<>>,
                                 items |-> s.spending_changes] ]

\* SimulationResult.survived
Survived(r) == r.ruin_age = None

\* run_simulation as a function of its arguments
RECURSIVE RunLoop(_, _, _)
RunLoop(s, P, returns_sequence) ==
    IF LoopDone(s, Len(returns_sequence)) THEN s
    ELSE RunLoop(StepYear(s, P, Len(returns_sequence),
                          returns_sequence[s.year_index + 1]),
                 P, returns_sequence)

run_simulation(P, returns_sequence) ==
    SimulationResult(RunLoop(InitSim(P), P, returns_sequence))

\* ------------------------------------------------------------ the inputs
\* Return rates drawn for a year: -50%, 0%, +100%
Rates == {-1, 0, 2}
\* Inflation rates: 0% and 50%
InflationRates == {0, 1}

StartingPortfolios == {4 * Unit, 8 * Unit}
AnnualExpenses == {Unit, 4 * Unit}

\* No phase, or two phases that overlap at StartAge + 2 (the first one wins)
IncomePhaseLists ==
    { <<>>,
      << [start_age |-> StartAge + 1, end_age |-> StartAge + 2, amount |-> 2 * Unit],
         [start_age |-> StartAge + 2, end_age |-> StartAge + 3, amount |-> 3 * Unit] >> }

\* No windfall, or two at StartAge + 2 (they add up) and a negative one later
WindfallLists ==
    { <<>>,
      << [age |-> StartAge + 2, amount |-> 2 * Unit],
         [age |-> StartAge + 2, amount |-> Unit],
         [age |-> StartAge + 3, amount |-> 0 - Unit] >> }

NoHustle ==
    [present |-> FALSE, enabled |-> FALSE, trigger_age_max |-> 0,
     portfolio_threshold |-> 0, extra_income |-> 0, duration |-> 0]

\* emergency_hustle: None, or enabled with threshold 50%, 100% or 150% of the start
HustleConfigs ==
    {NoHustle} \cup
    [present : {TRUE}, enabled : {TRUE},
     trigger_age_max : {StartAge + 2, StartAge + MaxYears},
     portfolio_threshold : {1, 2, 3},
     extra_income : {2 * Unit},
     duration : {1, 2}]

NoSpendingRules ==
    [present |-> FALSE, enabled |-> FALSE, drop_threshold |-> 0,
     recovery_threshold |-> 0, reduced_spending |-> 0, lean_spending |-> 0,
     lean_age |-> 0]

\* spending_rules: None, or enabled with drop at 50% and recovery at 100%
SpendingRuleConfigs ==
    {NoSpendingRules} \cup
    [present : {TRUE}, enabled : {TRUE},
     drop_threshold : {1}, recovery_threshold : {2},
     reduced_spending : {2 * Unit}, lean_spending : {Unit},
     lean_age : {StartAge + 2, StartAge + 3}]

ParamSets ==
    [ starting_portfolio : StartingPortfolios,
      annual_expenses    : AnnualExpenses,
      start_age          : {StartAge},
      end_age            : {StartAge + MaxYears},
      inflation_rate     : InflationRates,
      income_phases      : IncomePhaseLists,
      windfalls          : WindfallLists,
      emergency_hustle   : HustleConfigs,
      spending_rules     : SpendingRuleConfigs ]

NoResult == [returned |-> FALSE]
NoBatch == [kind |-> "none"]
NoOutcomes == [classified |-> FALSE]
NoSummary == [computed |-> FALSE]

\* ------------------------------------------- a single run of run_simulation
\* The call: any parameters, any return sequence of length 0..MaxYears.
Init ==
    /\ params \in ParamSets
    /\ years \in 0..MaxYears
    /\ sim = InitSim(params)
    /\ pc = "loop"
    /\ result = NoResult
    /\ batch = NoBatch
    /\ results = <<>>
    /\ death_ages = <<>>
    /\ outcomes = NoOutcomes
    /\ bpc = "idle"

\* One iteration of the loop, on the next element of returns_sequence.
SimYear ==
    /\ pc = "loop"
    /\ ~LoopDone(sim, years)
    /\ \E return_rate \in Rates : sim' = StepYear(sim, params, years, return_rate)
    /\ UNCHANGED <<params, years, pc, result>>
    /\ UNCHANGED batchVars

\* The return statement, after the loop or its break.
Return ==
    /\ pc = "loop"
    /\ LoopDone(sim, years)
    /\ result' = SimulationResult(sim)
    /\ pc' = "returned"
    /\ UNCHANGED <<params, years, sim>>
    /\ UNCHANGED batchVars

Next == SimYear \/ Return

Spec == Init /\ [][Next]_vars

\* ------------------------------------------ runs with thresholds around 100%
\* Plans whose hustle and spending thresholds are 50%, 100% or 150% of the
\* starting portfolio, with no windfall, a windfall in the first simulated
\* year, or a negative one there
FirstYearParamSets ==
    [ starting_portfolio : {8 * Unit},
      annual_expenses    : {4 * Unit},
      start_age          : {StartAge},
      end_age            : {StartAge + MaxYears},
      inflation_rate     : {0},
      income_phases      : {<<>>},
      windfalls          : { <<>>,
                             << [age |-> StartAge + 1, amount |-> 2 * Unit] >>,
                             << [age |-> StartAge + 1, amount |-> 0 - Unit] >> },
      emergency_hustle   : {NoHustle} \cup
                           [present : {TRUE}, enabled : {TRUE},
                            trigger_age_max : {StartAge + 1, StartAge + 3},
                            portfolio_threshold : {1, 2, 3},
                            extra_income : {2 * Unit},
                            duration : {1}],
      spending_rules     : {NoSpendingRules} \cup
                           [present : {TRUE}, enabled : {TRUE},
                            drop_threshold : {1, 2, 3}, recovery_threshold : {3},
                            reduced_spending : {2 * Unit}, lean_spending : {Unit},
                            lean_age : {StartAge + 1, StartAge + 3}] ]

\* The call of run_simulation on such a plan
InitFirstYear ==
    /\ params \in FirstYearParamSets
    /\ years \in 0..MaxYears
    /\ sim = InitSim(params)
    /\ pc = "loop"
    /\ result = NoResult
    /\ batch = NoBatch
    /\ results = <<>>
    /\ death_ages = <<>>
    /\ outcomes = NoOutcomes
    /\ bpc = "idle"

SpecFirstYear == InitFirstYear /\ [][Next]_vars

\* ------------------------------------------------- float quotients in [0, 1]
\* The rates an orchestrator reports are Python floats k / n with
\* 0 <= k <= n.  A float in [0, 1] is held as its binary expansion: a list
\* of FracBits + 1 bits, the first of weight 1 and bit i + 1 of weight
\* 2^-i.  A float has FloatBits significant bits; results are rounded to
\* nearest, ties to even, as IEEE 754 double arithmetic does.
FloatBits == 53

\* Enough fraction bits to hold every float >= 2^-MaxTrials exactly, with
\* one more bit to round on
FracBits == FloatBits + MaxTrials + 1

FloatZero == [i \in 1..(FracBits + 1) |-> 0]

FloatOne == [i \in 1..(FracBits + 1) |-> IF i = 1 THEN 1 ELSE 0]

\* The remainders of the long division by b, one more per fraction bit
RECURSIVE Remainders(_, _, _)
Remainders(acc, b, n) ==
    IF n = 0 THEN acc
    ELSE Remainders(Append(acc, (2 * acc[Len(acc)]) % b), b, n - 1)

\* The index of the most significant 1 of bits (bits is not all 0)
Leading(bits) ==
    CHOOSE i \in DOMAIN bits :
        bits[i] = 1 /\ \A k \in 1..(i - 1) : bits[k] = 0

\* bits plus one unit at index j, the carry moving to the left
Increment(bits, j) ==
    LET k == CHOOSE i \in 1..j :
                 bits[i] = 0 /\ \A m \in (i + 1)..j : bits[m] = 1
    IN [i \in DOMAIN bits |-> IF i = k THEN 1
                              ELSE IF i > k /\ i <= j THEN 0
                              ELSE bits[i]]

\* The float nearest to the exact value `bits` (plus something below the
\* last bit when sticky), ties to the even significand
RoundToFloat(bits, sticky) ==
    IF \A i \in DOMAIN bits : bits[i] = 0 THEN bits
    ELSE LET j == Leading(bits) + FloatBits - 1
         IN IF j >= Len(bits) THEN bits
            ELSE LET rest == sticky \/ \E i \in (j + 2)..Len(bits) : bits[i] = 1
                     kept == [i \in DOMAIN bits |-> IF i <= j THEN bits[i] ELSE 0]
                     up   == bits[j + 1] = 1 /\ (rest \/ bits[j] = 1)
                 IN IF up THEN Increment(kept, j) ELSE kept

\* The float k / n of Python, for 0 <= k <= n and n > 0
FloatDiv(k, n) ==
    LET rems == Remainders(<<k % n>>, n, FracBits)
        bits == [i \in 1..(FracBits + 1) |->
                    IF i = 1 THEN k \div n ELSE (2 * rems[i - 1]) \div n]
    IN RoundToFloat(bits, rems[FracBits + 1] # 0)

\* The float 1 - x of Python, for a float x in [0, 1]
FloatOneMinus(x) ==
    IF x = FloatZero THEN FloatOne
    ELSE IF x[1] = 1 THEN FloatZero
    ELSE LET t == CHOOSE i \in DOMAIN x :
                      x[i] = 1 /\ \A m \in (i + 1)..Len(x) : x[m] = 0
             exact == [i \in DOMAIN x |-> IF i = 1 \/ i > t THEN 0
                                          ELSE IF i = t THEN 1
                                          ELSE 1 - x[i]]
         IN RoundToFloat(exact, FALSE)

\* ------------------------------------------------ float products and floors
\* The percentile indexes are floats n * c and m / 100 that can exceed 1.
\* Such a float is held as a list of IntBits integer bits followed by
\* WideFracBits fraction bits, bit i of weight 2^(IntBits - i).
IntBits == 10

\* Enough fraction bits to hold the floats 0.05 and 0.95 and their small
\* multiples exactly
WideFracBits == FloatBits + 7

\* Long multiplication and division go by digits of DigitBits bits
DigitBits == 7

Radix == Pow(2, DigitBits)

NumDigits(len) == (len + DigitBits - 1) \div DigitBits

\* Bit i of bits, 0 to the right of its last bit
Bit(bits, i) == IF i \in DOMAIN bits THEN bits[i] ELSE 0

\* The value of the first k bits of digit j of bits
RECURSIVE Digit(_, _, _)
Digit(bits, j, k) ==
    IF k = 0 THEN 0
    ELSE 2 * Digit(bits, j, k - 1) + Bit(bits, (j - 1) * DigitBits + k)

\* Bit i of the number that digits spells
BitOfDigits(digits, i) ==
    (digits[(i - 1) \div DigitBits + 1]
        \div Pow(2, DigitBits - 1 - ((i - 1) % DigitBits))) % 2

\* int(x) of Python for a float x >= 0: x without its fraction
FloatToInt(x) ==
    LET value[i \in 0..IntBits] == IF i = 0 THEN 0 ELSE 2 * value[i - 1] + x[i]
    IN value[IntBits]

\* The next count digits of the quotient r / n, for 0 <= r < n, and the
\* remainder after them
RECURSIVE DivDigits(_, _, _)
DivDigits(r, n, count) ==
    IF count = 0 THEN [digits |-> <<>>, rem |-> r]
    ELSE LET rest == DivDigits((r * Radix) % n, n, count - 1)
         IN [digits |-> <<(r * Radix) \div n>> \o rest.digits, rem |-> rest.rem]

\* The float k / n of Python, for k >= 0 and n > 0 with k / n < 2^IntBits;
\* for a decimal literal such as 0.05, the float nearest to 5 / 100
WideDiv(k, n) ==
    LET count == NumDigits(WideFracBits)
        frac  == DivDigits(k % n, n, count)
        bits  == [i \in 1..(IntBits + WideFracBits) |->
                     IF i <= IntBits
                     THEN ((k \div n) \div Pow(2, IntBits - i)) % 2
                     ELSE BitOfDigits(frac.digits, i - IntBits)]
        below == \E i \in (WideFracBits + 1)..(count * DigitBits) :
                     BitOfDigits(frac.digits, i) = 1
    IN RoundToFloat(bits, frac.rem # 0 \/ below)

\* Digits j.. of the exact product n * c, and the carry out of digit j
RECURSIVE MulDigits(_, _, _)
MulDigits(n, c, j) ==
    IF j > NumDigits(Len(c)) THEN [digits |-> <<>>, carry |-> 0]
    ELSE LET lower == MulDigits(n, c, j + 1)
             t     == n * Digit(c, j, DigitBits) + lower.carry
         IN [digits |-> <<t % Radix>> \o lower.digits, carry |-> t \div Radix]

\* The float n * c of Python, for an int n >= 0 and a float c in [0, 1)
FloatMul(n, c) ==
    LET product == MulDigits(n, c, 1).digits
    IN RoundToFloat([i \in DOMAIN c |-> BitOfDigits(product, i)], FALSE)

\* ---------------------------------------------------------- mortality
\* sample_death_age: the ages start_age..end_age in order, one draw per age;
\* dies[age] says whether that age's draw fell below its death probability
\* (every adjusted qx / 1000 of the table lies strictly between 0 and 1, so
\* both outcomes are possible at every age).
RECURSIVE sample_death_age(_, _, _)
sample_death_age(age, end_age, dies) ==
    IF age > end_age THEN None
    ELSE IF dies[age] THEN age
         ELSE sample_death_age(age + 1, end_age, dies)

\* --------------------------------------- _classify_mortality_outcomes
ZeroCounts == [survived_to_end |-> 0, died_with_money |-> 0, ran_out_of_money |-> 0]

\* A variant with `death_age <= ruin_age`: death in the ruin year saves.
ClassifyStepTieDies(counts, r, death_age) ==
    IF Survived(r)
    THEN (IF death_age = None
          THEN [counts EXCEPT !.survived_to_end = @ + 1]
          ELSE [counts EXCEPT !.died_with_money = @ + 1])
    ELSE (IF death_age # None /\ death_age <= r.ruin_age
          THEN [counts EXCEPT !.died_with_money = @ + 1]
          ELSE [counts EXCEPT !.ran_out_of_money = @ + 1])

\* A variant that tests `<` and `>` and so counts no outcome for a death
\* in the ruin year.
ClassifyStepDropsTie(counts, r, death_age) ==
    IF Survived(r)
    THEN (IF death_age = None
          THEN [counts EXCEPT !.survived_to_end = @ + 1]
          ELSE [counts EXCEPT !.died_with_money = @ + 1])
    ELSE (IF death_age # None /\ death_age < r.ruin_age
          THEN [counts EXCEPT !.died_with_money = @ + 1]
          ELSE IF death_age = None \/ death_age > r.ruin_age
               THEN [counts EXCEPT !.ran_out_of_money = @ + 1]
               ELSE counts)

\* A variant that counts a survived trial with a death age as
\* ran_out_of_money.
ClassifyStepDeathIsFailure(counts, r, death_age) ==
    IF Survived(r)
    THEN (IF death_age = None
          THEN [counts EXCEPT !.survived_to_end = @ + 1]
          ELSE [counts EXCEPT !.ran_out_of_money = @ + 1])
    ELSE (IF death_age # None /\ death_age < r.ruin_age
          THEN [counts EXCEPT !.died_with_money = @ + 1]
          ELSE [counts EXCEPT !.ran_out_of_money = @ + 1])

\* The body of `for result, death_age in zip(results, death_ages)`
ClassifyStep(counts, r, death_age) ==
    IF Survived(r)
    THEN (IF death_age = None
          THEN [counts EXCEPT !.survived_to_end = @ + 1]
          ELSE [counts EXCEPT !.died_with_money = @ + 1])
    ELSE (IF death_age # None /\ death_age < r.ruin_age
          THEN [counts EXCEPT !.died_with_money = @ + 1]
          ELSE [counts EXCEPT !.ran_out_of_money = @ + 1])

Min(a, b) == IF a <= b THEN a ELSE b

\* The loop over zip(results, death_ages), from pair i on
RECURSIVE ClassifyLoop(_, _, _, _)
ClassifyLoop(counts, rs, ds, i) ==
    IF i > Min(Len(rs), Len(ds)) THEN counts
    ELSE ClassifyLoop(ClassifyStep(counts, rs[i], ds[i]), rs, ds, i + 1)

NotSurvived(r) == ~Survived(r)

\* A variant whose mortality-disabled branch counts every trial as
\* survived_to_end instead of the survived ones.
classify_mortality_outcomes_all_survive(rs, ds, mortality_enabled) ==
    LET num_simulations == Len(rs)
        failures == SelectSeq(rs, NotSurvived)
        counts == IF mortality_enabled
                  THEN ClassifyLoop(ZeroCounts, rs, ds, 1)
                  ELSE [survived_to_end  |-> num_simulations,
                        died_with_money  |-> 0,
                        ran_out_of_money |-> Len(failures)]
    IN [ survived_to_end   |-> counts.survived_to_end,
         died_with_money   |-> counts.died_with_money,
         ran_out_of_money  |-> counts.ran_out_of_money,
         real_failure_rate |-> FloatDiv(counts.ran_out_of_money, num_simulations) ]

classify_mortality_outcomes(rs, ds, mortality_enabled) ==
    LET num_simulations == Len(rs)
        failures == SelectSeq(rs, NotSurvived)
        survived_count == num_simulations - Len(failures)
        counts == IF mortality_enabled
                  THEN ClassifyLoop(ZeroCounts, rs, ds, 1)
                  ELSE [survived_to_end  |-> survived_count,
                        died_with_money  |-> 0,
                        ran_out_of_money |-> Len(failures)]
    IN [ survived_to_end   |-> counts.survived_to_end,
         died_with_money   |-> counts.died_with_money,
         ran_out_of_money  |-> counts.ran_out_of_money,
         real_failure_rate |-> FloatDiv(counts.ran_out_of_money, num_simulations) ]

\* ------------------------------------------------------------- percentiles
Ascending(a, b) == a < b

\* The list as it is, not sorted
unsorted(values) == values

\* sorted(values) of Python, for a list of numbers
sorted(values) == SortSeq(values, Ascending)

\* The default percentiles of calculate_percentile_trajectories
DefaultPercentiles == {5, 10, 15, 25, 50, 75, 95}

\* int(n * p / 100) for every list length n and percentile p of a batch: the
\* float quotient of the int n * p by 100, without its fraction
PercentileIndex ==
    [n \in 1..MaxTrials |->
        [p \in DefaultPercentiles |-> FloatToInt(WideDiv(n * p, 100))]]

\* int(n * 0.05) and int(n * 0.95) for every list length n of a batch: the
\* float product of n and the float literal, without its fraction
FinalIndex ==
    [n \in 1..MaxTrials |->
        [p \in {5, 95} |-> FloatToInt(FloatMul(n, WideDiv(p, 100)))]]

\* run_simulation.py, percentile(data, p): data is sorted, p is an int
percentile(data, p) ==
    LET idx == PercentileIndex[Len(data)][p]
    IN data[Min(idx, Len(data) - 1) + 1]

\* calculate_percentile_trajectories(results): for each percentile p the list
\* "p<p>" with one value per age of the first result; {} without results
calculate_percentile_trajectories(rs) ==
    IF rs = <<>> THEN <<>>
    ELSE LET ages      == rs[1].ages
             num_years == Len(ages)
             trajectory(p) ==
                 [year_idx \in 1..num_years |->
                     LET values == sorted([r \in DOMAIN rs |->
                                              rs[r].portfolio_values[year_idx]])
                         idx    == PercentileIndex[Len(values)][p]
                     IN values[Min(idx, Len(values) - 1) + 1]]
         IN [ages |-> ages,
             p    |-> [p \in DefaultPercentiles |-> trajectory(p)]]

\* A variant that indexes the final portfolios in trial order, without
\* sorting them.
final_percentiles_in_trial_order(rs) ==
    LET final_values == [r \in DOMAIN rs |-> rs[r].final_portfolio]
        n            == Len(final_values)
    IN [ median_final        |-> final_values[n \div 2 + 1],
         percentile_5_final  |-> final_values[FinalIndex[n][5] + 1],
         percentile_95_final |-> final_values[FinalIndex[n][95] + 1] ]

\* The final-portfolio statistics of the summary of run_monte_carlo,
\* run_simulation_with_custom_returns and run_historical_sequence
final_percentiles(rs) ==
    LET final_values == sorted([r \in DOMAIN rs |-> rs[r].final_portfolio])
        n            == Len(final_values)
    IN [ median_final        |-> final_values[n \div 2 + 1],
         percentile_5_final  |-> final_values[FinalIndex[n][5] + 1],
         percentile_95_final |-> final_values[FinalIndex[n][95] + 1] ]

\* run_simulation.py, run_monte_carlo: the percentiles of MonteCarloSummary
MonteCarloSummary(all_results) ==
    LET final_values == sorted([r \in DOMAIN all_results |->
                                   all_results[r].final_portfolio])
    IN [ median_final  |-> percentile(final_values, 50),
         percentile_5  |-> percentile(final_values, 5),
         percentile_25 |-> percentile(final_values, 25),
         percentile_75 |-> percentile(final_values, 75),
         percentile_95 |-> percentile(final_values, 95) ]

\* ------------------------------------------------------ the orchestrators
\* Return rates drawn in a batch: -50% and +100%
BatchRates == {-1, 2}

\* A params dict of a plan that is ruined by one bad year early on and
\* survives good years
ValidBatchParams ==
    [ starting_portfolio : {8 * Unit},
      annual_expenses    : {4 * Unit},
      start_age          : {StartAge},
      end_age            : {StartAge + 1, StartAge + 2},
      inflation_rate     : {0},
      income_phases      : {<<>>},
      windfalls          : {<<>>},
      emergency_hustle   : {NoHustle},
      spending_rules     : {NoSpendingRules} ]

\* The same plan with a starting_portfolio of 0, with annual_expenses of 0,
\* or with end_age == start_age: the orchestrators take the dict as it is
InvalidBatchParams ==
    LET P == CHOOSE Q \in ValidBatchParams : Q.end_age = StartAge + 1
    IN { [P EXCEPT !.starting_portfolio = 0],
         [P EXCEPT !.annual_expenses = 0],
         [P EXCEPT !.end_age = StartAge] }

\* The batch's params dict
BatchParamSets == ValidBatchParams \cup InvalidBatchParams

\* All sequences over S of length n
SeqsOfLen(S, n) == [1..n -> S]

\* historical_sequence_returns(years): one sequence per starting year of the
\* dataset, each of length years, wrapping around the end of the dataset
historical_sequence_returns(n, dataset) ==
    [i \in 1..Len(dataset) |->
        [j \in 1..n |-> dataset[((i + j - 2) % Len(dataset)) + 1]]]

\* The arguments an orchestrator passes to run_simulation
SimArgs(P, inflation_rate) == [P EXCEPT !.inflation_rate = inflation_rate]

\* A call of an orchestrator: run_monte_carlo(params, num_simulations),
\* run_simulation_with_custom_returns(params, all_returns) with
\* num_simulations == len(all_returns) sequences of one length seq_len (the
\* percentile trajectories index every trial by the first trial's years),
\* or run_historical_sequence(params) over a dataset of num_simulations years.
InitBatch ==
    /\ params \in BatchParamSets
    /\ years = params.end_age - params.start_age
    /\ sim = InitSim(params)
    /\ pc = "idle"
    /\ result = NoResult
    /\ \E kind \in {"monte_carlo", "custom", "historical"},
          mortality_enabled \in BOOLEAN,
          num_simulations \in 1..MaxTrials :
          \E dataset \in (IF kind = "historical"
                          THEN SeqsOfLen(BatchRates, num_simulations)
                          ELSE {<<>>}),
             seq_len \in (IF kind = "custom" THEN 0..years ELSE {years}) :
              batch = [ kind              |-> kind,
                        mortality_enabled |-> mortality_enabled,
                        num_simulations   |-> num_simulations,
                        dataset           |-> dataset,
                        seq_len           |-> seq_len ]
    /\ results = <<>>
    /\ death_ages = <<>>
    /\ outcomes = NoOutcomes
    /\ bpc = "trials"

\* The death age of one trial: sampled when mortality is enabled, else None
TrialDeathAge(dies) ==
    IF batch.mortality_enabled
    THEN sample_death_age(params.start_age, params.end_age, dies)
    ELSE None

DeathDraws == [params.start_age..params.end_age -> BOOLEAN]

\* One iteration of `for returns in all_returns` of an orchestrator
Trial(returns, inflation_rate, dies) ==
    /\ death_ages' = Append(death_ages, TrialDeathAge(dies))
    /\ results' = Append(results, run_simulation(SimArgs(params, inflation_rate), returns))
    /\ UNCHANGED <<batch, outcomes, bpc>>
    /\ UNCHANGED simVars

\* run_monte_carlo: the next of num_simulations random sequences of length years
TrialMonteCarlo ==
    /\ bpc = "trials"
    /\ batch.kind = "monte_carlo"
    /\ Len(results) < batch.num_simulations
    /\ \E returns \in SeqsOfLen(BatchRates, years), dies \in DeathDraws :
           Trial(returns, params.inflation_rate, dies)

\* run_simulation_with_custom_returns: the next of the caller's sequences
TrialCustom ==
    /\ bpc = "trials"
    /\ batch.kind = "custom"
    /\ Len(results) < batch.num_simulations
    /\ \E returns \in SeqsOfLen(BatchRates, batch.seq_len), dies \in DeathDraws :
           Trial(returns, params.inflation_rate, dies)

\* run_historical_sequence: the sequence of the next starting year, with
\* inflation_rate = 0
TrialHistorical ==
    /\ bpc = "trials"
    /\ batch.kind = "historical"
    /\ Len(results) < batch.num_simulations
    /\ \E dies \in DeathDraws :
           Trial(historical_sequence_returns(years, batch.dataset)[Len(results) + 1],
                 0, dies)

\* After the loop: the summary statistics and the classification
Classify ==
    /\ bpc = "trials"
    /\ Len(results) = batch.num_simulations
    /\ outcomes' =
         LET failures == SelectSeq(results, NotSurvived)
             survived_count == Len(results) - Len(failures)
         IN [ mortality      |-> classify_mortality_outcomes(
                                     results, death_ages, batch.mortality_enabled),
              survived_count |-> survived_count,
              failure_count  |-> Len(failures),
              success_rate   |-> FloatDiv(survived_count, batch.num_simulations),
              final          |-> final_percentiles(results),
              percentiles    |-> calculate_percentile_trajectories(results),
              cli_summary    |-> IF batch.kind = "historical" THEN NoSummary
                                 ELSE MonteCarloSummary(results) ]
    /\ bpc' = "classified"
    /\ UNCHANGED <<batch, results, death_ages>>
    /\ UNCHANGED simVars

NextBatch == TrialMonteCarlo \/ TrialCustom \/ TrialHistorical \/ Classify

SpecBatch == InitBatch /\ [][NextBatch]_vars

\* A call of an orchestrator on a valid plan, for the comparison of the
\* statistics with those of the trials in another order
InitOrder ==
    /\ InitBatch
    /\ params \in ValidBatchParams
    /\ params.end_age = StartAge + 1

SpecOrder == InitOrder /\ [][NextBatch]_vars

\* ------------------------------------------------------ example trajectories
\* list.sort(key=...) on entries [key, item]: ascending by key, entries of
\* equal key in their original order.  The last entry goes behind the
\* sorted entries whose key is not larger.
InsertLast(sorted_entries, e) ==
    LET n == Cardinality({i \in DOMAIN sorted_entries : sorted_entries[i].key <= e.key})
    IN SubSeq(sorted_entries, 1, n) \o <<e>>
           \o SubSeq(sorted_entries, n + 1, Len(sorted_entries))

RECURSIVE sort_by_key(_)
sort_by_key(entries) ==
    IF entries = <<>> THEN <<>>
    ELSE InsertLast(sort_by_key(SubSeq(entries, 1, Len(entries) - 1)), Last(entries))

\* seq[:n] of Python, for n >= 0
Prefix(seq, n) == SubSeq(seq, 1, Min(n, Len(seq)))

\* The sort key `r.ruin_age or 999`
RuinAgeKey(r) == IF r.ruin_age = None \/ r.ruin_age = 0 THEN 999 ELSE r.ruin_age

FailureExample(r) ==
    [ ruin_age              |-> r.ruin_age,
      trajectory            |-> r.portfolio_values,
      ages                  |-> r.ages,
      hustle_activated      |-> r.hustle_activated,
      hustle_activation_age |-> r.hustle_activation_age,
      spending_reduced      |-> r.spending_reduced,
      spending_went_lean    |-> r.spending_went_lean ]

\* A variant that cuts the list before sorting it.
get_failure_examples_cut_first(rs, max_examples) ==
    LET failures == Prefix(SelectSeq(rs, NotSurvived), max_examples)
        ordered  == sort_by_key([i \in DOMAIN failures |->
                                    [key |-> RuinAgeKey(failures[i]), item |-> failures[i]]])
    IN [i \in DOMAIN ordered |-> FailureExample(ordered[i].item)]

\* get_failure_examples(results, max_examples)
get_failure_examples(rs, max_examples) ==
    LET failures == SelectSeq(rs, NotSurvived)
        ordered  == sort_by_key([i \in DOMAIN failures |->
                                    [key |-> RuinAgeKey(failures[i]), item |-> failures[i]]])
        listed   == Prefix(ordered, max_examples)
    IN [i \in DOMAIN listed |-> FailureExample(listed[i].item)]

\* min(values) of a non-empty list
MinOf(values) ==
    CHOOSE v \in {values[i] : i \in DOMAIN values} :
        \A i \in DOMAIN values : v <= values[i]

\* values.index(v): the first position of v, from 0
IndexOf(values, v) ==
    CHOOSE i \in 0..(Len(values) - 1) :
        values[i + 1] = v /\ \A k \in 1..i : values[k] # v

CloseCall(r) ==
    LET min_value == MinOf(r.portfolio_values)
    IN [ min_value          |-> min_value,
         min_age            |-> r.ages[IndexOf(r.portfolio_values, min_value) + 1],
         final_portfolio    |-> r.final_portfolio,
         trajectory         |-> r.portfolio_values,
         ages               |-> r.ages,
         hustle_activated   |-> r.hustle_activated,
         spending_reduced   |-> r.spending_reduced,
         spending_went_lean |-> r.spending_went_lean ]

\* get_close_call_examples(results, threshold, max_examples)
get_close_call_examples(rs, threshold, max_examples) ==
    LET IsCloseCall(r) == Survived(r) /\ MinOf(r.portfolio_values) < threshold
        qualifying  == SelectSeq(rs, IsCloseCall)
        close_calls == [i \in DOMAIN qualifying |-> CloseCall(qualifying[i])]
        ordered     == sort_by_key([i \in DOMAIN close_calls |->
                           [key |-> close_calls[i].min_value, item |-> close_calls[i]]])
        listed      == Prefix(ordered, max_examples)
    IN [i \in DOMAIN listed |-> listed[i].item]

\* The plan of the batches above over three years: a trial is ruined in its
\* first year, in its third year, or survives
ExampleParams ==
    { [P EXCEPT !.end_age = StartAge + 3] : P \in {Q \in ValidBatchParams : Q.end_age = StartAge + 1} }

\* max_examples: small ones that cut the list, and the 30 and the 10 that the
\* orchestrators pass
ExampleCaps == {1, 2, 10, 30}

\* threshold: one that some survived trials stay above, and one above all
\* values (the orchestrators' 300,000 is above the starting portfolio)
ExampleThresholds == {7 * Unit, 300 * Unit}

\* A list of results of run_simulation, then a call of get_failure_examples
\* or of get_close_call_examples on it
InitExamples ==
    /\ params \in ExampleParams
    /\ years = params.end_age - params.start_age
    /\ sim = InitSim(params)
    /\ pc = "idle"
    /\ result = NoResult
    /\ batch = [kind |-> "examples"]
    /\ results = <<>>
    /\ death_ages = <<>>
    /\ outcomes = NoOutcomes
    /\ bpc = "trials"

\* One more trial in the list
AddTrial ==
    /\ bpc = "trials"
    /\ Len(results) < MaxTrials
    /\ \E returns \in SeqsOfLen(BatchRates, years) :
           results' = Append(results, run_simulation(params, returns))
    /\ UNCHANGED <<batch, death_ages, outcomes, bpc>>
    /\ UNCHANGED simVars

CallGetFailureExamples ==
    /\ bpc = "trials"
    /\ \E max_examples \in ExampleCaps :
           outcomes' = [ fn           |-> "get_failure_examples",
                         max_examples |-> max_examples,
                         value        |-> get_failure_examples(results, max_examples) ]
    /\ bpc' = "called"
    /\ UNCHANGED <<batch, results, death_ages>>
    /\ UNCHANGED simVars

CallGetCloseCallExamples ==
    /\ bpc = "trials"
    /\ \E threshold \in ExampleThresholds, max_examples \in ExampleCaps :
           outcomes' = [ fn           |-> "get_close_call_examples",
                         threshold    |-> threshold,
                         max_examples |-> max_examples,
                         value        |-> get_close_call_examples(results, threshold,
                                                                  max_examples) ]
    /\ bpc' = "called"
    /\ UNCHANGED <<batch, results, death_ages>>
    /\ UNCHANGED simVars

NextExamples == AddTrial \/ CallGetFailureExamples \/ CallGetCloseCallExamples

SpecExamples == InitExamples /\ [][NextExamples]_vars

\* ----------------------------------------------------- the binary searches
\* find_required_portfolio (export_data.py) and find_bulletproof_floor
\* (run_simulation.py) on float amounts.  An amount is held as a list of
\* AmountIntBits integer bits and AmountFracBits fraction bits, bit i of
\* weight 2^(AmountIntBits - i) euros; every float result is rounded to
\* FloatBits significant bits.
AmountIntBits == FloatBits + 19

AmountFracBits == DigitBits + 1

AmountBits == AmountIntBits + AmountFracBits

\* The float of a whole number of euros below 2^22
Amount(euros) ==
    [i \in 1..AmountBits |->
        IF i > AmountIntBits \/ AmountIntBits - i > 22 THEN 0
        ELSE (euros \div Pow(2, AmountIntBits - i)) % 2]

\* The float 1e20
Amount1e20 == FloatMul(100000, FloatMul(100000, FloatMul(100000, Amount(100000))))

\* a < b
Less(a, b) ==
    \E i \in DOMAIN a : a[i] < b[i] /\ \A k \in 1..(i - 1) : a[k] = b[k]

\* Digits j.. of the exact sum a + b, and the carry out of digit j
RECURSIVE AddDigits(_, _, _)
AddDigits(a, b, j) ==
    IF j > NumDigits(Len(a)) THEN [digits |-> <<>>, carry |-> 0]
    ELSE LET lower == AddDigits(a, b, j + 1)
             t     == Digit(a, j, DigitBits) + Digit(b, j, DigitBits) + lower.carry
         IN [digits |-> <<t % Radix>> \o lower.digits, carry |-> t \div Radix]

\* The float a + b
FloatAdd(a, b) ==
    LET sum == AddDigits(a, b, 1).digits
    IN RoundToFloat([i \in DOMAIN a |-> BitOfDigits(sum, i)], FALSE)

\* Digits j.. of the exact difference a - b, for a >= b, and the borrow out
\* of digit j
RECURSIVE SubDigits(_, _, _)
SubDigits(a, b, j) ==
    IF j > NumDigits(Len(a)) THEN [digits |-> <<>>, borrow |-> 0]
    ELSE LET lower == SubDigits(a, b, j + 1)
             t     == Digit(a, j, DigitBits) - Digit(b, j, DigitBits) - lower.borrow
         IN [digits |-> <<(t + Radix) % Radix>> \o lower.digits,
             borrow |-> IF t < 0 THEN 1 ELSE 0]

\* The float a - b, for a >= b
FloatSub(a, b) ==
    LET difference == SubDigits(a, b, 1).digits
    IN RoundToFloat([i \in DOMAIN a |-> BitOfDigits(difference, i)], FALSE)

\* The float a / 2
Halve(a) == [i \in DOMAIN a |-> IF i = 1 THEN 0 ELSE a[i - 1]]

\* The float a // 2: a / 2 without its fraction
FloorHalve(a) ==
    [i \in DOMAIN a |-> IF i = 1 \/ i > AmountIntBits THEN 0 ELSE a[i - 1]]

\* max(a, b) of two floats
FloatMax(a, b) == IF Less(a, b) THEN b ELSE a

\* The precision of both searches: 10,000 euros
SearchPrecision == 10000

DefaultAnnualExpenses == 30000

MinimumHigh == 2000000

BulletproofLow == 100000

\* The iterations of a search are counted up to MaxIterations
MaxIterations == 64

\* The bracket before the loop
InitialBracket(fn, P) ==
    IF fn = "find_required_portfolio"
    THEN LET expenses == IF P.has_annual_expenses THEN P.annual_expenses
                         ELSE Amount(DefaultAnnualExpenses)
         IN [low  |-> P.starting_portfolio,
             high |-> FloatMax(FloatMul(50, expenses),
                               FloatMax(FloatMul(5, P.starting_portfolio),
                                        Amount(MinimumHigh)))]
    ELSE [low |-> Amount(BulletproofLow), high |-> FloatMul(2, P.starting_portfolio)]

\* The loop condition: high - low > 10_000
SearchContinues(low, high) ==
    /\ Less(low, high)
    /\ Less(Amount(SearchPrecision), FloatSub(high, low))

\* mid: (low + high) // 2 in find_required_portfolio, (low + high) / 2 in
\* find_bulletproof_floor
Midpoint(fn, low, high) ==
    IF fn = "find_required_portfolio"
    THEN FloorHalve(FloatAdd(low, high))
    ELSE Halve(FloatAdd(low, high))

\* The dicts the searches are called with: everyday amounts, and a
\* starting portfolio of 1e20
SearchParams ==
    [ starting_portfolio  : {Amount(0), Amount(40000), Amount(500000), Amount(600000),
                             Amount1e20},
      has_annual_expenses : BOOLEAN,
      annual_expenses     : {Amount(60000)} ]

\* What the batch runs of a search return: any sequence of success rates
\* ("any"), or success rates that reach the target from a portfolio of
\* `threshold` on.  For the starting portfolio of 1e20, whose bracket takes
\* more than fifty iterations to narrow, only the latter is enumerated.
SearchOracles(fn, P) ==
    IF P.starting_portfolio = Amount1e20
    THEN {[any |-> FALSE, threshold |-> FloatMul(3, Amount1e20)]}
    ELSE {[any |-> TRUE, threshold |-> Amount(0)]}

InitSearch ==
    /\ params \in ExampleParams
    /\ years = params.end_age - params.start_age
    /\ sim = InitSim(params)
    /\ pc = "idle"
    /\ result = NoResult
    /\ \E fn \in {"find_required_portfolio", "find_bulletproof_floor"},
          P \in SearchParams :
          \E oracle \in SearchOracles(fn, P) :
              LET bracket == InitialBracket(fn, P)
              IN batch = [ kind         |-> "search",
                           fn           |-> fn,
                           base_params  |-> P,
                           oracle       |-> oracle,
                           initial_low  |-> bracket.low,
                           initial_high |-> bracket.high,
                           low          |-> bracket.low,
                           high         |-> bracket.high,
                           passed       |-> <<>>,
                           iterations   |-> 0 ]
    /\ results = <<>>
    /\ death_ages = <<>>
    /\ outcomes = NoOutcomes
    /\ bpc = "searching"

\* One iteration of the loop: the batch at mid reaches the target or not;
\* batch.passed holds the last portfolio whose batch reached it
SearchIteration ==
    /\ bpc = "searching"
    /\ SearchContinues(batch.low, batch.high)
    /\ LET mid == Midpoint(batch.fn, batch.low, batch.high)
       IN \E reaches_target \in BOOLEAN :
              /\ batch.oracle.any \/ reaches_target = ~Less(mid, batch.oracle.threshold)
              /\ batch' = IF reaches_target
                          THEN [batch EXCEPT !.high = mid,
                                             !.passed = <<mid>>,
                                             !.iterations = Min(@ + 1, MaxIterations)]
                          ELSE [batch EXCEPT !.low = mid,
                                             !.iterations = Min(@ + 1, MaxIterations)]
    /\ UNCHANGED <<results, death_ages, outcomes, bpc>>
    /\ UNCHANGED simVars

\* return high
SearchReturn ==
    /\ bpc = "searching"
    /\ ~SearchContinues(batch.low, batch.high)
    /\ outcomes' = [returned |-> batch.high]
    /\ bpc' = "returned"
    /\ UNCHANGED <<batch, results, death_ages>>
    /\ UNCHANGED simVars

NextSearch == SearchIteration \/ SearchReturn

SpecSearch == InitSearch /\ [][NextSearch]_vars

\* ------------------------------------------- the projection of fire_assessment
\* The branch of fire_assessment taken when the target is not reached with
\* the current portfolio: `required` is the value find_required_portfolio
\* returned for a search that starts at the portfolio, which is above it.
\* real_return is a whole number here (-100%, 0% or 100% a year), so that
\* the projected amounts are exact.
max_years == 60

ProjectionPortfolios == {0, 1, 30}

ProjectionRequired == {2, 31, 59, 60, 61, 64}

ProjectionSavings == {-1, 0, 1, 2}

ProjectionReturns == {-1, 0, 1}

NoResponse == [responded |-> FALSE]

\* The request has been assessed, fire_achieved is false and required is known
InitProjection ==
    /\ params \in {P \in ValidBatchParams : P.end_age = StartAge + 1}
    /\ years = params.end_age - params.start_age
    /\ sim = InitSim(params)
    /\ pc = "idle"
    /\ result = NoResult
    /\ \E portfolio \in ProjectionPortfolios, required \in ProjectionRequired,
          annual_savings \in ProjectionSavings, real_return \in ProjectionReturns :
          /\ required > portfolio
          /\ real_return > 0 => portfolio + annual_savings >= 0
          /\ batch = [kind |-> "projection", current_age |-> 40,
                      portfolio |-> portfolio, required |-> required,
                      annual_savings |-> annual_savings, real_return |-> real_return,
                      projected_portfolio |-> portfolio,
                      years |-> 0,
                      projection |-> <<portfolio>>]
    /\ results = <<>>
    /\ death_ages = <<>>
    /\ outcomes = NoResponse
    /\ bpc = "project"

\* if annual_savings <= 0 and real_return <= 0
CannotReach == batch.annual_savings <= 0 /\ batch.real_return <= 0

\* while projected_portfolio < required and years < max_years
ProjectionContinues ==
    batch.projected_portfolio < batch.required /\ batch.years < max_years

\* The branch without savings and without growth
ReportCannotReach ==
    /\ bpc = "project"
    /\ batch.kind = "projection"
    /\ CannotReach
    /\ outcomes' = [responded |-> TRUE, fire_age |-> None, years_to_fire |-> None,
                    projection_note |-> "Cannot reach FIRE with negative savings and no real returns"]
    /\ bpc' = "responded"
    /\ UNCHANGED <<batch, results, death_ages>>
    /\ UNCHANGED simVars

\* One iteration of the loop; batch.projection keeps the projected
\* portfolio after each year
ProjectYear ==
    /\ bpc = "project"
    /\ batch.kind = "projection"
    /\ ~CannotReach
    /\ ProjectionContinues
    /\ LET projected_portfolio ==
               batch.projected_portfolio * (1 + batch.real_return) + batch.annual_savings
       IN batch' = [batch EXCEPT !.projected_portfolio = projected_portfolio,
                                 !.years = @ + 1,
                                 !.projection = Append(@, projected_portfolio)]
    /\ UNCHANGED <<results, death_ages, outcomes, bpc>>
    /\ UNCHANGED simVars

\* After the loop: `if years >= max_years` decides what is reported
ReportProjection ==
    /\ bpc = "project"
    /\ batch.kind = "projection"
    /\ ~CannotReach
    /\ ~ProjectionContinues
    /\ outcomes' = IF batch.years >= max_years
                   THEN [responded |-> TRUE, fire_age |-> None, years_to_fire |-> None,
                         projection_note |-> "FIRE not reachable within 60 years"]
                   ELSE [responded |-> TRUE, fire_age |-> batch.current_age + batch.years,
                         years_to_fire |-> batch.years,
                         projection_note |-> "",
                         projected_portfolio_at_fire |-> batch.projected_portfolio]
    /\ bpc' = "responded"
    /\ UNCHANGED <<batch, results, death_ages>>
    /\ UNCHANGED simVars

NextProjection == ReportCannotReach \/ ProjectYear \/ ReportProjection

SpecProjection == InitProjection /\ [][NextProjection]_vars

\* ------------------------------------- two runs that differ in one argument
\* A hustle or spending-rule configuration that is present with
\* 'enabled': False
Disabled(config) == [config EXCEPT !.enabled = FALSE]

\* The parameters of the compared runs: those of a single run, and those
\* with the hustle or the spending rules switched off by their flag
PairParamSets ==
    ParamSets \cup
    { [P EXCEPT !.emergency_hustle = Disabled(@),
                !.spending_rules = Disabled(@)] : P \in ParamSets }

\* run_simulation is about to be called twice on one return sequence: with
\* params, and with params but a larger starting_portfolio
InitPair ==
    /\ params \in PairParamSets
    /\ years \in 0..MaxYears
    /\ sim = InitSim(params)
    /\ pc = "idle"
    /\ result = NoResult
    /\ \E returns \in SeqsOfLen(Rates, years),
          larger \in {p \in StartingPortfolios : p > params.starting_portfolio} :
          batch = [kind |-> "pair", returns |-> returns, larger |-> larger]
    /\ results = <<>>
    /\ death_ages = <<>>
    /\ outcomes = NoOutcomes
    /\ bpc = "first"

\* The call with the smaller starting_portfolio
RunSmaller ==
    /\ bpc = "first"
    /\ results' = <<run_simulation(params, batch.returns)>>
    /\ bpc' = "second"
    /\ UNCHANGED <<batch, death_ages, outcomes>>
    /\ UNCHANGED simVars

\* The call with the larger starting_portfolio, all else the same
RunLarger ==
    /\ bpc = "second"
    /\ results' = Append(results,
                         run_simulation([params EXCEPT !.starting_portfolio = batch.larger],
                                        batch.returns))
    /\ bpc' = "compared"
    /\ UNCHANGED <<batch, death_ages, outcomes>>
    /\ UNCHANGED simVars

NextPair == RunSmaller \/ RunLarger

SpecPair == InitPair /\ [][NextPair]_vars

\* --------------------------- a run with spending rules and the same without
\* run_simulation is called on one return sequence with params, whose
\* spending rules are enabled, and with the same params but the rules
\* disabled (absent, or 'enabled': False); the two loops advance together,
\* batch.other holding the locals of the second call
InitRules ==
    /\ params \in {P \in ParamSets : P.spending_rules.present /\ P.spending_rules.enabled}
    /\ years \in 0..MaxYears
    /\ sim = InitSim(params)
    /\ pc = "idle"
    /\ result = NoResult
    /\ \E disabled \in {NoSpendingRules, Disabled(params.spending_rules)} :
          batch = [kind |-> "rules", disabled |-> disabled, other |-> InitSim(params)]
    /\ results = <<>>
    /\ death_ages = <<>>
    /\ outcomes = NoOutcomes
    /\ bpc = "both_loop"

\* The params of the second call
WithoutRules == [params EXCEPT !.spending_rules = batch.disabled]

\* One iteration of each loop that has not ended, on the same return rate
BothYears ==
    /\ bpc = "both_loop"
    /\ ~LoopDone(sim, years) \/ ~LoopDone(batch.other, years)
    /\ \E return_rate \in Rates :
          /\ sim' = IF LoopDone(sim, years) THEN sim
                    ELSE StepYear(sim, params, years, return_rate)
          /\ batch' = [batch EXCEPT !.other =
                          IF LoopDone(batch.other, years) THEN batch.other
                          ELSE StepYear(batch.other, WithoutRules, years, return_rate)]
    /\ UNCHANGED <<params, years, pc, result, results, death_ages, outcomes, bpc>>

\* Both calls return
BothReturn ==
    /\ bpc = "both_loop"
    /\ LoopDone(sim, years)
    /\ LoopDone(batch.other, years)
    /\ results' = <<SimulationResult(sim), SimulationResult(batch.other)>>
    /\ bpc' = "both_returned"
    /\ UNCHANGED <<batch, death_ages, outcomes>>
    /\ UNCHANGED simVars

NextRules == BothYears \/ BothReturn

SpecRules == InitRules /\ [][NextRules]_vars

\* ------------------------------------------------------ stress scenarios
\* STRESS_SCENARIOS: the metadata of each scenario (the long texts
\* 'description' and 'commentary' are left out)
STRESS_SCENARIOS ==
    [ id \in {"japan_lost_decades",
              "sequence_risk_early_crash",
              "climate_transition_shock",
              "stagflation_1970s",
              "great_depression",
              "secular_stagnation",
              "rising_rates_regime",
              "euro_crisis_finland"} |->
        CASE id = "japan_lost_decades" ->
                 [name |-> "Japan Lost Decades",
                  likelihood |-> "Low for diversified global equity",
                  historical_precedent |-> "Japan 1989-2023",
                  severity |-> "extreme"]
          [] id = "sequence_risk_early_crash" ->
                 [name |-> "Sequence of Returns Risk (Early Crash)",
                  likelihood |-> "Moderate (happens every 20-30 years)",
                  historical_precedent |-> "2000 dot-com, 2008 GFC, 1929",
                  severity |-> "high"]
          [] id = "climate_transition_shock" ->
                 [name |-> "Climate Transition Shock",
                  likelihood |-> "Unknown but increasing concern",
                  historical_precedent |-> "Novel scenario",
                  severity |-> "high"]
          [] id = "stagflation_1970s" ->
                 [name |-> "1970s Stagflation Redux",
                  likelihood |-> "Low-moderate (policy dependent)",
                  historical_precedent |-> "1966-1982 US markets",
                  severity |-> "high"]
          [] id = "great_depression" ->
                 [name |-> "Great Depression Sequence",
                  likelihood |-> "Very low (banking/regulatory changes)",
                  historical_precedent |-> "1929-1939",
                  severity |-> "extreme"]
          [] id = "secular_stagnation" ->
                 [name |-> "Secular Stagnation",
                  likelihood |-> "Moderate (demographics, debt)",
                  historical_precedent |-> "Japan post-1990, some EU economies",
                  severity |-> "moderate"]
          [] id = "rising_rates_regime" ->
                 [name |-> "Rising Rates Regime Shift",
                  likelihood |-> "Moderate-high near term",
                  historical_precedent |-> "1970s, 2022-?",
                  severity |-> "moderate"]
          [] id = "euro_crisis_finland" ->
                 [name |-> "Euro Crisis / Currency Collapse",
                  likelihood |-> "Low but non-zero for eurozone",
                  historical_precedent |-> "Greece 2010-2015, Argentina 2001",
                  severity |-> "high"] ]

\* num_sims sequences of num_years draws; draw[year] names the distribution
\* the draw of year index `year` (from 0) is taken from
GenSequences(num_years, num_sims, draw) ==
    [s \in 1..num_sims |-> [y \in 1..num_years |-> draw[y - 1]]]

generate_japan_lost_decades(num_years, num_sims) ==
    GenSequences(num_years, num_sims,
        [year \in 0..(num_years - 1) |->
                      IF year = 0 THEN "uniform(-0.45, -0.35)"
                      ELSE IF year < 20 THEN "gauss(0.01, 0.18)"
                      ELSE "gauss(0.035, 0.15)"])

generate_sequence_risk_crash(num_years, num_sims) ==
    GenSequences(num_years, num_sims,
        [year \in 0..(num_years - 1) |->
                      IF year = 0 THEN "gauss(-0.35, 0.05)"
                      ELSE IF year = 1 THEN "gauss(-0.15, 0.05)"
                      ELSE IF year = 2 THEN "gauss(-0.10, 0.05)"
                      ELSE "gauss(mean, std)"])

generate_climate_transition(num_years, num_sims) ==
    GenSequences(num_years, num_sims,
        [year \in 0..(num_years - 1) |->
                      IF year < 10 THEN "gauss(mean, std)"
                      ELSE "gauss(uniform(0.02, 0.03), 0.12)"])

generate_stagflation_1970s(num_years, num_sims) ==
    GenSequences(num_years, num_sims,
        [year \in 0..(num_years - 1) |->
                      IF year < 10 THEN "gauss(0.005, 0.16)"
                      ELSE "gauss(0.055, 0.15)"])

generate_great_depression(num_years, num_sims) ==
    GenSequences(num_years, num_sims,
        [year \in 0..(num_years - 1) |->
                      IF year = 0 THEN "gauss(-0.50, 0.10)"
                      ELSE IF year = 1 THEN "gauss(-0.30, 0.10)"
                      ELSE IF year < 10 THEN "gauss(0.015, 0.12)"
                      ELSE "gauss(0.06, 0.15)"])

generate_secular_stagnation(num_years, num_sims) ==
    GenSequences(num_years, num_sims,
        [year \in 0..(num_years - 1) |->
                      "gauss(uniform(0.03, 0.04), 0.14)"])

generate_rising_rates_regime(num_years, num_sims) ==
    GenSequences(num_years, num_sims,
        [year \in 0..(num_years - 1) |->
                      IF year < 5 THEN "gauss(mean - 0.03, std * 1.3)"
                      ELSE "gauss(mean, std)"])

generate_euro_crisis_finland(num_years, num_sims) ==
    GenSequences(num_years, num_sims,
        [year \in 0..(num_years - 1) |->
                      IF year = 0 THEN "gauss(-0.30, 0.05)"
                      ELSE IF year < 6 THEN "gauss(-0.03, 0.18)"
                      ELSE "gauss(mean * 0.9, std * 1.1)"])

\* A variant of the dispatch table that lacks the last scenario.
generators_without_euro_crisis(num_years, num_sims) ==
    [ id \in {"japan_lost_decades", "sequence_risk_early_crash",
              "climate_transition_shock", "stagflation_1970s",
              "great_depression", "secular_stagnation",
              "rising_rates_regime"} |->
        CASE id = "japan_lost_decades" -> generate_japan_lost_decades(num_years, num_sims)
          [] id = "sequence_risk_early_crash" -> generate_sequence_risk_crash(num_years, num_sims)
          [] id = "climate_transition_shock" -> generate_climate_transition(num_years, num_sims)
          [] id = "stagflation_1970s" -> generate_stagflation_1970s(num_years, num_sims)
          [] id = "great_depression" -> generate_great_depression(num_years, num_sims)
          [] id = "secular_stagnation" -> generate_secular_stagnation(num_years, num_sims)
          [] id = "rising_rates_regime" -> generate_rising_rates_regime(num_years, num_sims) ]

\* The dispatch table of generate_scenario_returns
generators(num_years, num_sims) ==
    [ id \in {"japan_lost_decades", "sequence_risk_early_crash",
              "climate_transition_shock", "stagflation_1970s",
              "great_depression", "secular_stagnation",
              "rising_rates_regime", "euro_crisis_finland"} |->
        CASE id = "japan_lost_decades" -> generate_japan_lost_decades(num_years, num_sims)
          [] id = "sequence_risk_early_crash" -> generate_sequence_risk_crash(num_years, num_sims)
          [] id = "climate_transition_shock" -> generate_climate_transition(num_years, num_sims)
          [] id = "stagflation_1970s" -> generate_stagflation_1970s(num_years, num_sims)
          [] id = "great_depression" -> generate_great_depression(num_years, num_sims)
          [] id = "secular_stagnation" -> generate_secular_stagnation(num_years, num_sims)
          [] id = "rising_rates_regime" -> generate_rising_rates_regime(num_years, num_sims)
          [] id = "euro_crisis_finland" -> generate_euro_crisis_finland(num_years, num_sims) ]

\* What a call gave: an exception raised, or a value returned
Raised(exception) == [raised |-> exception, returned |-> FALSE, value |-> <<>>]
Returned(value) == [raised |-> "none", returned |-> TRUE, value |-> value]

generate_scenario_returns(scenario_id, num_years, num_sims) ==
    IF scenario_id \notin DOMAIN generators(num_years, num_sims)
    THEN Raised("ValueError")
    ELSE Returned(generators(num_years, num_sims)[scenario_id])

get_scenario_metadata(scenario_id) ==
    IF scenario_id \notin DOMAIN STRESS_SCENARIOS
    THEN Raised("ValueError")
    ELSE Returned(STRESS_SCENARIOS[scenario_id])

\* Scenario ids that are no key: empty, another run mode's name, a key in
\* the wrong case, a key with a space after it
UnknownScenarioIds ==
    {"", "monte_carlo", "Japan_Lost_Decades", "great_depression "}

\* A call of generate_scenario_returns or get_scenario_metadata is about
\* to be made
InitScenario ==
    /\ params \in {P \in ValidBatchParams : P.end_age = StartAge + 1}
    /\ years = params.end_age - params.start_age
    /\ sim = InitSim(params)
    /\ pc = "idle"
    /\ result = NoResult
    /\ \E scenario_id \in DOMAIN STRESS_SCENARIOS \cup UnknownScenarioIds,
          num_years \in 0..MaxYears,
          num_sims \in 0..MaxTrials :
          batch = [kind |-> "scenario", scenario_id |-> scenario_id,
                   years |-> num_years, num_sims |-> num_sims]
    /\ results = <<>>
    /\ death_ages = <<>>
    /\ outcomes = NoOutcomes
    /\ bpc = "call"

CallGenerateScenarioReturns ==
    /\ bpc = "call"
    /\ outcomes' = [fn |-> "generate_scenario_returns",
                    call |-> generate_scenario_returns(
                                 batch.scenario_id, batch.years, batch.num_sims)]
    /\ bpc' = "called"
    /\ UNCHANGED <<batch, results, death_ages>>
    /\ UNCHANGED simVars

CallGetScenarioMetadata ==
    /\ bpc = "call"
    /\ outcomes' = [fn |-> "get_scenario_metadata",
                    call |-> get_scenario_metadata(batch.scenario_id)]
    /\ bpc' = "called"
    /\ UNCHANGED <<batch, results, death_ages>>
    /\ UNCHANGED simVars

NextScenario == CallGenerateScenarioReturns \/ CallGetScenarioMetadata

SpecScenario == InitScenario /\ [][NextScenario]_vars

\* --------------------------------------------------- the mortality model
\* Rates of death are per 1,000 and kept as exact fractions; the table holds
\* tenths (3.8 is 38).
FINNISH_MALE_MORTALITY ==
    LET qx == << 38, 41, 44, 48, 52, 57, 62, 68, 75, 83,
              92, 102, 113, 125, 139, 154, 171, 190, 211, 234,
              260, 289, 321, 357, 397, 442, 492, 548, 611, 681,
              759, 846, 943, 1051, 1171, 1305, 1454, 1620, 1805, 2010,
              2238, 2492, 2775, 3089, 3438, 3824, 4252, 4725, 5250, 5500,
              5720, 5920, 6100, 6250, 6380, 6500, 6600, 6680, 6750, 6800,
              6830, 6850, 6850, 6850 >>
    IN [age \in 47..110 |-> qx[age - 46]]

\* A variant in which every health class has the ratios of 'average'.
HEALTH_CLASS_PARAMS_all_average ==
    [ health_class \in {"excellent", "average", "impaired"} |->
        [base_ratio |-> 100, convergence_ratio |-> 100, convergence_age |-> 100] ]

\* base_ratio and convergence_ratio in hundredths
HEALTH_CLASS_PARAMS ==
    [ health_class \in {"excellent", "average", "impaired"} |->
        CASE health_class = "excellent" ->
                 [base_ratio |-> 30, convergence_ratio |-> 100, convergence_age |-> 100]
          [] health_class = "average" ->
                 [base_ratio |-> 100, convergence_ratio |-> 100, convergence_age |-> 100]
          [] health_class = "impaired" ->
                 [base_ratio |-> 150, convergence_ratio |-> 100, convergence_age |-> 100] ]

\* rate_multiplier in tenths
TECH_SCENARIO_PARAMS ==
    [ scenario \in {"conservative", "moderate", "optimistic"} |->
        CASE scenario = "conservative" -> [rate_multiplier |-> 5]
          [] scenario = "moderate"     -> [rate_multiplier |-> 10]
          [] scenario = "optimistic"   -> [rate_multiplier |-> 15] ]

\* (age_low, age_high): rate, in dict order; the rate in thousandths
AGE_IMPROVEMENT_RATES ==
    << [age_low |-> 0,   age_high |-> 65,  rate |-> 15],
       [age_low |-> 65,  age_high |-> 85,  rate |-> 12],
       [age_low |-> 85,  age_high |-> 100, rate |-> 6],
       [age_low |-> 100, age_high |-> 150, rate |-> 3] >>

\* dict.get(key, default)
DictGet(dict, key, default) == IF key \in DOMAIN dict THEN dict[key] ELSE default

\* A variant whose unknown health class falls back to the first entry of
\* the dict, 'excellent'.
health_adjusted_mortality_first_entry(age, base_qx, health_class) ==
    LET hp == DictGet(HEALTH_CLASS_PARAMS, health_class, HEALTH_CLASS_PARAMS["excellent"])
        base_age == 45
        years_span == hp.convergence_age - base_age
        years_from_base == age - base_age
        ratio_num == IF age <= base_age THEN hp.base_ratio * years_span
                     ELSE IF age >= hp.convergence_age
                          THEN hp.convergence_ratio * years_span
                          ELSE hp.base_ratio * years_span
                               + (hp.convergence_ratio - hp.base_ratio) * years_from_base
    IN [num |-> base_qx * ratio_num, den |-> 10 * 100 * years_span]

\* health_adjusted_mortality: base_qx * ratio, as the fraction num / den per
\* 1,000 (base_qx in tenths, the ratio in hundredths of 1 / years_span)
health_adjusted_mortality(age, base_qx, health_class) ==
    LET hp == DictGet(HEALTH_CLASS_PARAMS, health_class, HEALTH_CLASS_PARAMS["average"])
        base_age == 45
        years_span == hp.convergence_age - base_age
        years_from_base == age - base_age
        ratio_num == IF age <= base_age THEN hp.base_ratio * years_span
                     ELSE IF age >= hp.convergence_age
                          THEN hp.convergence_ratio * years_span
                          ELSE hp.base_ratio * years_span
                               + (hp.convergence_ratio - hp.base_ratio) * years_from_base
    IN [num |-> base_qx * ratio_num, den |-> 10 * 100 * years_span]

\* The rate of the first range (age_low, age_high) with age_low <= age <
\* age_high, from entry i on; 1.2% when there is none
RECURSIVE BaseImprovementRate(_, _)
BaseImprovementRate(age, i) ==
    IF i > Len(AGE_IMPROVEMENT_RATES) THEN 12
    ELSE IF AGE_IMPROVEMENT_RATES[i].age_low <= age /\ age < AGE_IMPROVEMENT_RATES[i].age_high
         THEN AGE_IMPROVEMENT_RATES[i].rate
         ELSE BaseImprovementRate(age, i + 1)

\* mortality_improvement_factor: (1 - rate) ** years_in_future, kept as its
\* rate (in 1 / 10,000) and exponent; 1.0 is rate 0 to the power 0
mortality_improvement_factor(age, years_in_future, scenario) ==
    IF years_in_future <= 0 THEN [rate |-> 0, power |-> 0]
    ELSE LET base_rate == BaseImprovementRate(age, 1)
             scenario_params == DictGet(TECH_SCENARIO_PARAMS, scenario,
                                        TECH_SCENARIO_PARAMS["moderate"])
         IN [rate |-> base_rate * scenario_params.rate_multiplier,
             power |-> years_in_future]

\* _get_qx: the health-adjusted rate times the improvement factor
get_qx(age, mortality_table, health_class, tech_scenario, years_from_retirement) ==
    LET min_age == CHOOSE a \in DOMAIN mortality_table :
                       \A b \in DOMAIN mortality_table : a <= b
        base_qx == IF age \in DOMAIN mortality_table THEN mortality_table[age]
                   ELSE IF age < min_age THEN mortality_table[min_age]
                   ELSE 5000
        adjusted_qx == health_adjusted_mortality(age, base_qx, health_class)
        tech_factor == mortality_improvement_factor(age, years_from_retirement, tech_scenario)
    IN [num |-> adjusted_qx.num, den |-> adjusted_qx.den, factor |-> tech_factor]

\* Inputs of the mortality model: ages below, inside and above the table
\* and on both sides of every range bound; known and unknown enum values
QxAges == {40, 45, 47, 64, 65, 84, 85, 99, 100, 110, 111}
HealthClasses == {"excellent", "average", "impaired", "Excellent", "good", ""}
TechScenarios == {"conservative", "moderate", "optimistic", "Moderate", "pessimistic", ""}

\* _get_qx is about to be called on the Finnish table
InitQx ==
    /\ params \in {P \in ValidBatchParams : P.end_age = StartAge + 1}
    /\ years = params.end_age - params.start_age
    /\ sim = InitSim(params)
    /\ pc = "idle"
    /\ result = NoResult
    /\ \E age \in QxAges, health_class \in HealthClasses,
          tech_scenario \in TechScenarios,
          years_from_retirement \in 0..MaxYears :
          batch = [kind |-> "qx", age |-> age, health_class |-> health_class,
                   tech_scenario |-> tech_scenario,
                   years_from_retirement |-> years_from_retirement]
    /\ results = <<>>
    /\ death_ages = <<>>
    /\ outcomes = NoOutcomes
    /\ bpc = "call"

CallGetQx ==
    /\ bpc = "call"
    /\ outcomes' = [fn |-> "_get_qx",
                    call |-> Returned(get_qx(batch.age, FINNISH_MALE_MORTALITY,
                                             batch.health_class, batch.tech_scenario,
                                             batch.years_from_retirement))]
    /\ bpc' = "called"
    /\ UNCHANGED <<batch, results, death_ages>>
    /\ UNCHANGED simVars

NextQx == CallGetQx

SpecQx == InitQx /\ [][NextQx]_vars

\* ------------------------------------------------ probabilities as floats
\* A death or survival probability is a float.  It is held as a sign, a
\* significand m of ProbBits bits and an exponent e, the value being
\* m / 2^e (m = 0 for zero).  Every operation rounds its exact result to
\* ProbBits significant bits, to nearest and ties to even, the way double
\* arithmetic rounds to 53 bits.  A significand is two limbs of LimbBits
\* bits, so that the parts of a product fit the integers of the checker.
LimbBits == 13

ProbBits == 2 * LimbBits

Pow2 == [k \in 0..30 |-> Pow(2, k)]

\* The number of bits of n, for 0 <= n < 2^30
BitLength(n) == CHOOSE k \in 0..30 : n < Pow2[k] /\ (k = 0 \/ n >= Pow2[k - 1])

ProbZero == [neg |-> FALSE, m |-> 0, e |-> 0]

ProbOne == [neg |-> FALSE, m |-> Pow2[ProbBits - 1], e |-> ProbBits - 1]

\* The float nearest to n / 2^e (plus something below the last bit of n
\* when sticky), for 0 <= n < 2^30
ProbRound(neg, n, e, sticky) ==
    LET len == BitLength(n)
    IN IF n = 0 THEN ProbZero
       ELSE IF len <= ProbBits
            THEN [neg |-> neg, m |-> n * Pow2[ProbBits - len], e |-> e + ProbBits - len]
            ELSE LET cut  == len - ProbBits
                     kept == n \div Pow2[cut]
                     rest == n % Pow2[cut]
                     half == Pow2[cut - 1]
                     up   == rest > half \/ (rest = half /\ (sticky \/ kept % 2 = 1))
                     m    == IF up THEN kept + 1 ELSE kept
                 IN IF m = Pow2[ProbBits]
                    THEN [neg |-> neg, m |-> Pow2[ProbBits - 1], e |-> e - cut - 1]
                    ELSE [neg |-> neg, m |-> m, e |-> e - cut]

\* The quotient k / d by long division, four bits at a time and then one,
\* until it has more bits than a float keeps: n / 2^e with the remainder r
RECURSIVE QuotientDigits(_, _, _, _)
QuotientDigits(n, r, d, e) ==
    IF n >= Pow2[ProbBits + 1] \/ r = 0 THEN [n |-> n, e |-> e, rem |-> r]
    ELSE IF n < Pow2[ProbBits - 3]
         THEN QuotientDigits(16 * n + ((16 * r) \div d), (16 * r) % d, d, e + 4)
         ELSE QuotientDigits(2 * n + ((2 * r) \div d), (2 * r) % d, d, e + 1)

\* The float k / d, for k >= 0 and d > 0
ProbOfFraction(k, d) ==
    LET q == QuotientDigits(k \div d, k % d, d, 0)
    IN ProbRound(FALSE, q.n, q.e, q.rem # 0)

\* The float a * b: the exact product of the significands by limbs, its
\* leading ProbBits + 2 bits rounded
ProbMul(a, b) ==
    LET limb   == Pow2[LimbBits]
        low    == (a.m % limb) * (b.m % limb)
        middle == (a.m \div limb) * (b.m % limb) + (a.m % limb) * (b.m \div limb)
                      + (low \div limb)
        high   == (a.m \div limb) * (b.m \div limb) + (middle \div limb)
        rest   == (middle % limb) * limb + (low % limb)
    IN ProbRound(a.neg # b.neg,
                 4 * high + (rest \div Pow2[ProbBits - 2]),
                 a.e + b.e - ProbBits + 2,
                 rest % Pow2[ProbBits - 2] # 0)

\* The float 1 - x, for a float x >= 0
ProbOneMinus(x) ==
    IF x.m = 0 THEN ProbOne
    ELSE IF x.e <= 30
         THEN IF Pow2[x.e] >= x.m THEN ProbRound(FALSE, Pow2[x.e] - x.m, x.e, FALSE)
              ELSE ProbRound(TRUE, x.m - Pow2[x.e], x.e, FALSE)
         ELSE IF x.e - 30 > ProbBits THEN ProbOne
              ELSE LET shift == Pow2[x.e - 30]
                   IN IF x.m % shift = 0
                      THEN ProbRound(FALSE, Pow2[30] - (x.m \div shift), 30, FALSE)
                      ELSE ProbRound(FALSE, Pow2[30] - (x.m \div shift) - 1, 30, TRUE)

\* The float x ** n, by squaring
RECURSIVE ProbPow(_, _)
ProbPow(x, n) ==
    IF n = 0 THEN ProbOne
    ELSE LET half   == ProbPow(x, n \div 2)
             square == ProbMul(half, half)
         IN IF n % 2 = 1 THEN ProbMul(square, x) ELSE square

\* |a| < |b|
MagnitudeLess(a, b) ==
    /\ b.m # 0
    /\ \/ a.m = 0
       \/ a.e > b.e
       \/ a.e = b.e /\ a.m < b.m

\* a < b
ProbLess(a, b) ==
    IF a.neg # b.neg THEN a.neg
    ELSE IF a.neg THEN MagnitudeLess(b, a)
    ELSE MagnitudeLess(a, b)

\* A variant that takes the rate per 1,000 for the probability.
death_prob_unscaled(qx) ==
    ProbMul(ProbOfFraction(qx.num, qx.den),
            ProbPow(ProbOfFraction(10000 - qx.factor.rate, 10000), qx.factor.power))

\* death_prob = qx / 1000, qx the adjusted rate of _get_qx: the
\* health-adjusted rate times (1 - rate) ** years
death_prob(qx) ==
    ProbMul(ProbOfFraction(qx.num, qx.den * 1000),
            ProbPow(ProbOfFraction(10000 - qx.factor.rate, 10000), qx.factor.power))

\* ------------------------------------------------ calculate_dynamic_end_age
\* Mortality tables (rates in tenths per 1,000): the Finnish one, one whose
\* rate at the first age of the run is 1,000 per 1,000, and one without
\* deaths
MortalityTable(name, start_age) ==
    [age \in 47..110 |->
        CASE name = "finnish"       -> FINNISH_MALE_MORTALITY[age]
          [] name = "certain_death" -> IF age = start_age THEN 10000
                                       ELSE FINNISH_MALE_MORTALITY[age]
          [] name = "no_death"      -> 0]

MortalityTableNames == {"finnish", "certain_death", "no_death"}

StartAges == {47, 60, 104}

KnownHealthClasses == {"excellent", "average", "impaired"}

KnownTechScenarios == {"conservative", "moderate", "optimistic"}

\* survival_threshold: the 0.01 of the callers, [num, den] = 1 / 100, and 0.5
SurvivalThresholds == {<<1, 100>>, <<1, 2>>}

\* hard_cap - start_age: below the floor of ten years, the 110 of the
\* callers, and beyond the table
HardCaps(start_age) == {start_age + 5, 110, 120}

\* A variant that records every age below the threshold, the last one
\* remaining.
NextEndAgeLast(calculated_end_age, survival_prob, survival_threshold, hard_cap, age) ==
    IF ProbLess(survival_prob, survival_threshold) THEN age ELSE calculated_end_age

\* if survival_prob < survival_threshold and calculated_end_age == hard_cap:
\*     calculated_end_age = age
NextEndAge(calculated_end_age, survival_prob, survival_threshold, hard_cap, age) ==
    IF ProbLess(survival_prob, survival_threshold) /\ calculated_end_age = hard_cap
    THEN age
    ELSE calculated_end_age

\* calculate_dynamic_end_age has been called and is about to enter its loop
InitEndAge ==
    /\ params \in {P \in ValidBatchParams : P.end_age = StartAge + 1}
    /\ years = params.end_age - params.start_age
    /\ sim = InitSim(params)
    /\ pc = "idle"
    /\ result = NoResult
    /\ \E start_age \in StartAges, table \in MortalityTableNames,
          health_class \in KnownHealthClasses, tech_scenario \in KnownTechScenarios,
          threshold \in SurvivalThresholds :
          \E hard_cap \in HardCaps(start_age) :
              batch = [kind |-> "end_age", start_age |-> start_age,
                       mortality_table |-> table, health_class |-> health_class,
                       tech_scenario |-> tech_scenario,
                       survival_threshold |-> ProbOfFraction(threshold[1], threshold[2]),
                       hard_cap |-> hard_cap,
                       age |-> start_age,
                       survival_prob |-> ProbOne,
                       calculated_end_age |-> hard_cap,
                       survival_by_age |-> <<>>]
    /\ results = <<>>
    /\ death_ages = <<>>
    /\ outcomes = NoOutcomes
    /\ bpc = "loop"

\* One iteration of `for age in range(start_age, hard_cap + 1)`;
\* survival_by_age keeps the survival probability after each age
EndAgeYear ==
    /\ bpc = "loop"
    /\ batch.kind = "end_age"
    /\ batch.age <= batch.hard_cap
    /\ LET years_from_retirement == batch.age - batch.start_age
           qx == get_qx(batch.age,
                        MortalityTable(batch.mortality_table, batch.start_age),
                        batch.health_class, batch.tech_scenario, years_from_retirement)
           survival_prob == ProbMul(batch.survival_prob, ProbOneMinus(death_prob(qx)))
       IN batch' = [batch EXCEPT
                      !.survival_prob = survival_prob,
                      !.calculated_end_age =
                          NextEndAge(batch.calculated_end_age, survival_prob,
                                     batch.survival_threshold, batch.hard_cap, batch.age),
                      !.survival_by_age = Append(batch.survival_by_age, survival_prob),
                      !.age = batch.age + 1]
    /\ UNCHANGED <<results, death_ages, outcomes, bpc>>
    /\ UNCHANGED simVars

\* round(survival_prob * 100, 2) in hundredths of a percent, for a float
\* 0 <= survival_prob <= 1: the significand times 10,000 by limbs, divided
\* by 2^e and rounded to the nearest integer, ties to even
RoundPercent(survival_prob) ==
    LET limb  == Pow2[LimbBits]
        high  == (survival_prob.m \div limb) * 10000
        low   == (survival_prob.m % limb) * 10000
        sum   == high + (low \div limb)
        below == low % limb
        shift == survival_prob.e - LimbBits
    IN IF survival_prob.m = 0 \/ shift > 30 THEN 0
       ELSE LET quotient == sum \div Pow2[shift]
                rest     == sum % Pow2[shift]
                half     == Pow2[shift - 1]
                up       == rest > half \/ (rest = half /\ (below > 0 \/ quotient % 2 = 1))
            IN IF up THEN quotient + 1 ELSE quotient

\* After the loop: calculated_end_age = max(calculated_end_age, start_age + 10);
\* survival_at_end is rounded from the survival_prob the loop ended with
EndAgeReturn ==
    /\ bpc = "loop"
    /\ batch.kind = "end_age"
    /\ batch.age > batch.hard_cap
    /\ outcomes' = [fn |-> "calculate_dynamic_end_age",
                    end_age |-> Max(batch.calculated_end_age, batch.start_age + 10),
                    survival_prob |-> batch.survival_prob,
                    survival_at_end |-> RoundPercent(batch.survival_prob)]
    /\ bpc' = "returned"
    /\ UNCHANGED <<batch, results, death_ages>>
    /\ UNCHANGED simVars

NextDynamicEndAge == EndAgeYear \/ EndAgeReturn

SpecEndAge == InitEndAge /\ [][NextDynamicEndAge]_vars

\* --------------------------------------- sample_death_age, draw by draw
\* random.random(): some floats of [0, 1), as [num, den]; 38 / 10000 is the
\* death probability of the table's first age, and the others fall between
\* the death probabilities of the first ages
UniformDraws == {<<0, 1>>, <<125, 100000>>, <<38, 10000>>, <<39, 10000>>, <<1, 2>>}

\* A variant in which a draw equal to the death probability triggers.
DrawTriggersOnTie(draw, qx) == ~ProbLess(death_prob(qx), draw)

\* if random.random() < death_prob
DrawTriggers(draw, qx) == ProbLess(draw, death_prob(qx))

\* num_simulations of the batches whose sampling is followed draw by draw
SampleSizes == {1, 2}

\* The return sequences of those batches: every year -50%, every year +100%
SampleReturns == { [i \in 1..years |-> rate] : rate \in BatchRates }

\* An orchestrator is about to enter `for returns in all_returns`
InitSample ==
    /\ params \in {P \in ValidBatchParams : P.end_age = StartAge + 2}
    /\ years = params.end_age - params.start_age
    /\ sim = InitSim(params)
    /\ pc = "idle"
    /\ result = NoResult
    /\ \E orchestrator \in {"run_monte_carlo", "run_simulation_with_custom_returns",
                            "run_historical_sequence"},
          mortality_enabled \in BOOLEAN,
          health_class \in KnownHealthClasses,
          tech_scenario \in KnownTechScenarios,
          num_simulations \in SampleSizes :
          batch = [kind |-> "sample", orchestrator |-> orchestrator,
                   mortality_enabled |-> mortality_enabled,
                   health_class |-> health_class, tech_scenario |-> tech_scenario,
                   num_simulations |-> num_simulations,
                   calls |-> 0, in_call |-> FALSE, age |-> None, visited |-> <<>>]
    /\ results = <<>>
    /\ death_ages = <<>>
    /\ outcomes = NoOutcomes
    /\ bpc = "trials"

\* The rest of an iteration once death_age is known: the append and the run
FinishTrial(death_age) ==
    /\ death_ages' = Append(death_ages, death_age)
    /\ \E returns \in SampleReturns :
           results' = Append(results,
                             run_simulation(SimArgs(params, IF batch.orchestrator
                                                               = "run_historical_sequence"
                                                            THEN 0
                                                            ELSE params.inflation_rate),
                                            returns))

\* The start of an iteration: sample_death_age is called when mortality is
\* enabled; death_age = None otherwise
StartTrial ==
    /\ bpc = "trials"
    /\ batch.kind = "sample"
    /\ ~batch.in_call
    /\ Len(death_ages) < batch.num_simulations
    /\ IF batch.mortality_enabled
       THEN /\ batch' = [batch EXCEPT !.calls = batch.calls + 1, !.in_call = TRUE,
                                      !.age = params.start_age, !.visited = <<>>]
            /\ UNCHANGED <<results, death_ages>>
       ELSE /\ FinishTrial(None)
            /\ UNCHANGED batch
    /\ UNCHANGED <<outcomes, bpc>>
    /\ UNCHANGED simVars

\* One iteration of `for age in range(start_age, end_age + 1)` of
\* sample_death_age: a draw, and the return when it triggers
SampleAge ==
    /\ bpc = "trials"
    /\ batch.kind = "sample"
    /\ batch.in_call
    /\ batch.age <= params.end_age
    /\ \E u \in UniformDraws :
          LET years_from_retirement == batch.age - params.start_age
              qx == get_qx(batch.age, FINNISH_MALE_MORTALITY, batch.health_class,
                           batch.tech_scenario, years_from_retirement)
              draw == ProbOfFraction(u[1], u[2])
              visited == Append(batch.visited, [age |-> batch.age, draw |-> draw])
          IN IF DrawTriggers(draw, qx)
             THEN /\ batch' = [batch EXCEPT !.visited = visited, !.in_call = FALSE]
                  /\ FinishTrial(batch.age)
             ELSE /\ batch' = [batch EXCEPT !.visited = visited, !.age = batch.age + 1]
                  /\ UNCHANGED <<results, death_ages>>
    /\ UNCHANGED <<outcomes, bpc>>
    /\ UNCHANGED simVars

\* The loop of sample_death_age is exhausted: return None
SampleSurvived ==
    /\ bpc = "trials"
    /\ batch.kind = "sample"
    /\ batch.in_call
    /\ batch.age > params.end_age
    /\ batch' = [batch EXCEPT !.in_call = FALSE]
    /\ FinishTrial(None)
    /\ UNCHANGED <<outcomes, bpc>>
    /\ UNCHANGED simVars

\* The loop over all_returns is exhausted
EndTrials ==
    /\ bpc = "trials"
    /\ batch.kind = "sample"
    /\ ~batch.in_call
    /\ Len(death_ages) = batch.num_simulations
    /\ bpc' = "sampled"
    /\ UNCHANGED <<batch, results, death_ages, outcomes>>
    /\ UNCHANGED simVars

NextSample == StartTrial \/ SampleAge \/ SampleSurvived \/ EndTrials

SpecSample == InitSample /\ [][NextSample]_vars

\* ------------------------------------------- calculate_survival_probability
\* start_age of the calls followed: below the table, its first age, and
\* ages around 100, where the health classes converge
SurvivalStartAges == {40, 47, 99, 100, 110}

\* The last age of the table and of the claims about it
MaxAge == 110

\* survival_prob *= (1 - death_prob), for the rate qx of the age
SurvivalAfter(survival_prob, qx) == ProbMul(survival_prob, ProbOneMinus(death_prob(qx)))

\* Three calls calculate_survival_probability(start_age, end_age,
\* FINNISH_MALE_MORTALITY, health_class, tech_scenario), one per health
\* class and otherwise with the same arguments, are about to enter their
\* loops.  They are followed side by side, an age at a time.
InitSurvival ==
    /\ params \in {P \in ValidBatchParams : P.end_age = StartAge + 1}
    /\ years = params.end_age - params.start_age
    /\ sim = InitSim(params)
    /\ pc = "idle"
    /\ result = NoResult
    /\ \E start_age \in SurvivalStartAges, tech_scenario \in KnownTechScenarios :
          \E end_age \in start_age..MaxAge :
              batch = [kind |-> "survival", start_age |-> start_age,
                       end_age |-> end_age, tech_scenario |-> tech_scenario,
                       age |-> start_age,
                       survival_prob |-> [hc \in KnownHealthClasses |-> ProbOne],
                       by_age |-> <<>>]
    /\ results = <<>>
    /\ death_ages = <<>>
    /\ outcomes = NoOutcomes
    /\ bpc = "loop"

\* One iteration of `for age in range(start_age, end_age + 1)` in each call;
\* by_age keeps the death probability of each age and the survival
\* probability after it
SurvivalYear ==
    /\ bpc = "loop"
    /\ batch.kind = "survival"
    /\ batch.age <= batch.end_age
    /\ LET years_from_retirement == batch.age - batch.start_age
           qx == [hc \in KnownHealthClasses |->
                     get_qx(batch.age, FINNISH_MALE_MORTALITY, hc,
                            batch.tech_scenario, years_from_retirement)]
           survival_prob == [hc \in KnownHealthClasses |->
                                SurvivalAfter(batch.survival_prob[hc], qx[hc])]
       IN batch' = [batch EXCEPT
                      !.survival_prob = survival_prob,
                      !.by_age = Append(batch.by_age,
                                        [age |-> batch.age,
                                         death_prob |-> [hc \in KnownHealthClasses |->
                                                            death_prob(qx[hc])],
                                         survival_prob |-> survival_prob]),
                      !.age = batch.age + 1]
    /\ UNCHANGED <<results, death_ages, outcomes, bpc>>
    /\ UNCHANGED simVars

\* return survival_prob
SurvivalReturn ==
    /\ bpc = "loop"
    /\ batch.kind = "survival"
    /\ batch.age > batch.end_age
    /\ outcomes' = [fn |-> "calculate_survival_probability",
                    value |-> batch.survival_prob]
    /\ bpc' = "returned"
    /\ UNCHANGED <<batch, results, death_ages>>
    /\ UNCHANGED simVars

NextSurvival == SurvivalYear \/ SurvivalReturn

SpecSurvival == InitSurvival /\ [][NextSurvival]_vars

\* ------------------------------------------------ the mortality configuration
\* A variant that maps a factor of exactly 0.5 or 1.2 to 'average'.
get_legacy_health_class_strict(healthy_factor) ==
    IF healthy_factor = None THEN "average"
    ELSE IF healthy_factor < 50 THEN "excellent"
    ELSE IF healthy_factor > 120 THEN "impaired"
    ELSE "average"

\* _get_legacy_health_class; the factor in hundredths, None for null
get_legacy_health_class(healthy_factor) ==
    IF healthy_factor = None THEN "average"
    ELSE IF healthy_factor <= 50 THEN "excellent"
    ELSE IF healthy_factor >= 120 THEN "impaired"
    ELSE "average"

\* _extract_mortality_config: (enabled, health_class, tech_scenario)
extract_mortality_config(P) ==
    LET mortality_config == DictGet(P, "mortality", <<>>)
        enabled       == DictGet(mortality_config, "enabled", FALSE)
        tech_scenario == DictGet(mortality_config, "tech_scenario", "moderate")
        health_class  ==
            IF DictGet(mortality_config, "healthy_lifestyle_factor", None) # None
            THEN get_legacy_health_class(mortality_config["healthy_lifestyle_factor"])
            ELSE DictGet(mortality_config, "health_class", "average")
    IN <<enabled, health_class, tech_scenario>>

\* A dict with the keys whose option is <<value>>, without those whose
\* option is <<>>
DictOf(options) ==
    [key \in {k \in DOMAIN options : options[k] # <<>>} |-> options[key][1]]

\* healthy_lifestyle_factor: null, and factors on both sides of 0.5 and 1.2
LegacyFactors == {None, 0, 30, 50, 51, 100, 119, 120, 150}

\* The 'mortality' entries of a params dict, every key present or absent
MortalityConfigs ==
    { DictOf([enabled |-> en, health_class |-> hc, tech_scenario |-> ts,
              healthy_lifestyle_factor |-> f]) :
        en \in {<<>>, <<TRUE>>, <<FALSE>>},
        hc \in {<<>>} \cup { <<c>> : c \in KnownHealthClasses },
        ts \in {<<>>, <<"optimistic">>},
        f  \in {<<>>} \cup { <<v>> : v \in LegacyFactors } }

\* The params dicts: with each 'mortality' entry, and without one
MortalityParamDicts ==
    { DictOf([mortality |-> m]) : m \in {<<>>} \cup { <<c>> : c \in MortalityConfigs } }

\* An orchestrator has been called with the params dict
InitLegacy ==
    /\ params \in {P \in ValidBatchParams : P.end_age = StartAge + 1}
    /\ years = params.end_age - params.start_age
    /\ sim = InitSim(params)
    /\ pc = "idle"
    /\ result = NoResult
    /\ \E P \in MortalityParamDicts : batch = [kind |-> "legacy", params |-> P]
    /\ results = <<>>
    /\ death_ages = <<>>
    /\ outcomes = NoOutcomes
    /\ bpc = "called"

\* mortality_enabled, health_class, tech_scenario =
\*     _extract_mortality_config(params)
ExtractMortalityConfig ==
    /\ bpc = "called"
    /\ batch.kind = "legacy"
    /\ LET config == extract_mortality_config(batch.params)
       IN outcomes' = [mortality_enabled |-> config[1], health_class |-> config[2],
                       tech_scenario |-> config[3], calls |-> <<>>]
    /\ bpc' = "extracted"
    /\ UNCHANGED <<batch, results, death_ages>>
    /\ UNCHANGED simVars

\* _calculate_theoretical_mortality_stats(start_age, end_age, health_class,
\* tech_scenario, mortality_enabled): the call and the health class it gets
CallTheoreticalStats ==
    /\ bpc = "extracted"
    /\ batch.kind = "legacy"
    /\ outcomes' = [outcomes EXCEPT !.calls =
                       Append(@, [fn |-> "_calculate_theoretical_mortality_stats",
                                  health_class |-> outcomes.health_class,
                                  tech_scenario |-> outcomes.tech_scenario])]
    /\ bpc' = "trials"
    /\ UNCHANGED <<batch, results, death_ages>>
    /\ UNCHANGED simVars

\* The first trial's sample_death_age(start_age, end_age,
\* FINNISH_MALE_MORTALITY, health_class, tech_scenario), when mortality is
\* enabled
CallSampleDeathAge ==
    /\ bpc = "trials"
    /\ batch.kind = "legacy"
    /\ outcomes.mortality_enabled
    /\ outcomes' = [outcomes EXCEPT !.calls =
                       Append(@, [fn |-> "sample_death_age",
                                  health_class |-> outcomes.health_class,
                                  tech_scenario |-> outcomes.tech_scenario])]
    /\ bpc' = "sampling"
    /\ UNCHANGED <<batch, results, death_ages>>
    /\ UNCHANGED simVars

NextLegacy == ExtractMortalityConfig \/ CallTheoreticalStats \/ CallSampleDeathAge

SpecLegacy == InitLegacy /\ [][NextLegacy]_vars

\* ------------------------------------------------- objects and references
\* The calls below work on Python objects.  The heap is the list of the
\* objects created so far and a reference is an index into it.  A dict is
\* a function of its keys, a list a sequence.  In a params dict the values
\* of the keys RefKeys are references to the nested lists and dicts; the
\* other values are numbers.
RefKeys ==
    <<"income_phases", "windfalls", "emergency_hustle", "spending_rules", "mortality">>

\* The keys of the dict that hold a reference, in the order of RefKeys
NestedKeys(dict) == SelectSeq(RefKeys, LAMBDA k : k \in DOMAIN dict)

\* A variant that copies the dict alone: the copy holds the references of
\* the original (dict.copy()).
deepcopy_shallow(heap, id) == [heap |-> Append(heap, heap[id]), id |-> Len(heap) + 1]

\* copy.deepcopy of the params dict heap[id]: new nested objects, then the
\* new dict that refers to them
deepcopy(heap, id) ==
    LET dict   == heap[id]
        nested == NestedKeys(dict)
        place(k) == CHOOSE i \in DOMAIN nested : nested[i] = k
        copies == [i \in DOMAIN nested |-> heap[dict[nested[i]]]]
        copy   == [k \in DOMAIN dict |->
                      IF \E i \in DOMAIN nested : nested[i] = k
                      THEN Len(heap) + place(k)
                      ELSE dict[k]]
    IN [heap |-> heap \o copies \o <<copy>>, id |-> Len(heap) + Len(nested) + 1]

\* heap[id][key] = value
SetItem(heap, id, key, value) ==
    [heap EXCEPT ![id] = [k \in DOMAIN heap[id] \cup {key} |->
                             IF k = key THEN value ELSE heap[id][k]]]

\* The arguments that an orchestrator reads from the params dict for
\* run_simulation: params['starting_portfolio'], ...,
\* params.get('income_phases'), ...
ArgsOf(heap, id) ==
    LET dict == heap[id]
    IN [starting_portfolio |-> dict["starting_portfolio"],
        annual_expenses    |-> dict["annual_expenses"],
        start_age          |-> dict["start_age"],
        end_age            |-> dict["end_age"],
        inflation_rate     |-> dict["inflation"],
        income_phases      |-> IF "income_phases" \in DOMAIN dict
                               THEN heap[dict["income_phases"]] ELSE <<>>,
        windfalls          |-> IF "windfalls" \in DOMAIN dict
                               THEN heap[dict["windfalls"]] ELSE <<>>,
        emergency_hustle   |-> IF "emergency_hustle" \in DOMAIN dict
                               THEN heap[dict["emergency_hustle"]] ELSE NoHustle,
        spending_rules     |-> IF "spending_rules" \in DOMAIN dict
                               THEN heap[dict["spending_rules"]] ELSE NoSpendingRules]

\* A machine M is [heap, sims]: the heap and, for each run_simulation call
\* so far, the references of the lists of its result.
\* run_simulation on the arguments read from heap[p] and the return
\* sequence heap[returns]: its three lists are new objects
SimulationCall(M, p, returns) ==
    LET r == run_simulation(ArgsOf(M.heap, p), M.heap[returns])
        n == Len(M.heap)
    IN [heap |-> M.heap \o <<r.portfolio_values, r.ages, r.spending_changes.items>>,
        sims |-> Append(M.sims,
                        [portfolio_values |-> n + 1, ages |-> n + 2,
                         spending_changes |-> IF r.spending_changes.is_none
                                              THEN None ELSE n + 3])]

\* for returns in all_returns: ... run_simulation(...), from trial i on
RECURSIVE TrialsFrom(_, _, _, _)
TrialsFrom(M, p, all_returns, i) ==
    IF i > Len(M.heap[all_returns]) THEN M
    ELSE TrialsFrom(SimulationCall(M, p, M.heap[all_returns][i]), p, all_returns, i + 1)

\* run_simulation_with_custom_returns(params, all_returns)
CustomReturnsCall(M, p, all_returns) == TrialsFrom(M, p, all_returns, 1)

\* run_monte_carlo(params, num_simulations): generate_random_returns makes
\* the list of the sequences `generated`, then the trials
MonteCarloCall(M, p, generated) ==
    LET n    == Len(M.heap)
        refs == [i \in DOMAIN generated |-> n + i]
        made == [heap |-> M.heap \o generated \o <<refs>>, sims |-> M.sims]
    IN TrialsFrom(made, p, n + Len(generated) + 1, 1)

\* The loop body shared by find_required_portfolio (portfolio = mid) and
\* calculate_legacy_tradeoff (portfolio in portfolio_levels):
\*     test_params = copy.deepcopy(base_params)
\*     test_params['starting_portfolio'] = portfolio
\*     run_monte_carlo(test_params, num_simulations)
\* for the portfolios from index i on
RECURSIVE TestPortfolios(_, _, _, _, _)
TestPortfolios(M, base_params, portfolios, generated, i) ==
    IF i > Len(portfolios) THEN M
    ELSE LET copied == deepcopy(M.heap, base_params)
             heap   == SetItem(copied.heap, copied.id, "starting_portfolio", portfolios[i])
         IN TestPortfolios(MonteCarloCall([heap |-> heap, sims |-> M.sims],
                                          copied.id, generated),
                           base_params, portfolios, generated, i + 1)

\* for key, value in user_params[name].items(): params[name][key] = value
MergeNested(heap, merged, user_params, name) ==
    IF name \notin DOMAIN heap[user_params] THEN heap
    ELSE LET given  == heap[heap[user_params][name]]
             target == heap[merged][name]
         IN [heap EXCEPT ![target] =
                [k \in DOMAIN heap[target] \cup DOMAIN given |->
                    IF k \in DOMAIN given THEN given[k] ELSE heap[target][k]]]

\* if key in user_params: params[key] = user_params[key], for the given keys
MergeKeys(heap, merged, user_params, keys) ==
    [heap EXCEPT ![merged] =
        [k \in DOMAIN heap[merged] \cup (keys \cap DOMAIN heap[user_params]) |->
            IF k \in keys \cap DOMAIN heap[user_params]
            THEN heap[user_params][k] ELSE heap[merged][k]]]

\* _merge_user_params(user_params): a deep copy of DEFAULT_PARAMS, the
\* user's numbers and lists in place of the defaults, the user's keys of
\* the nested configs merged into the copied ones
merge_user_params(heap, default_params, user_params, include_market_params) ==
    LET copied   == deepcopy(heap, default_params)
        numbers  == MergeKeys(copied.heap, copied.id, user_params,
                              {"starting_portfolio", "annual_expenses", "start_age",
                               "end_age"}
                              \cup (IF include_market_params
                                    THEN {"expected_return", "inflation", "volatility"}
                                    ELSE {}))
        lists    == MergeKeys(numbers, copied.id, user_params,
                              {"income_phases", "windfalls"})
        hustle   == MergeNested(lists, copied.id, user_params, "emergency_hustle")
        spending == MergeNested(hustle, copied.id, user_params, "spending_rules")
        with_mortality ==
            IF "mortality" \in DOMAIN heap[user_params]
                   /\ "mortality" \notin DOMAIN spending[copied.id]
            THEN SetItem(Append(spending, <<>>), copied.id, "mortality",
                         Len(spending) + 1)
            ELSE spending
    IN [heap |-> MergeNested(with_mortality, copied.id, user_params, "mortality"),
        id |-> copied.id]

\* The objects before the first call: DEFAULT_PARAMS (6) with its nested
\* lists and dicts (1..5), the mortality table (7), the caller's params
\* dict (13) with its own (8..12), two return sequences (14, 15) and their
\* list (16), a request's user_params (20) with its nested objects
\* (17..19), and a list of portfolio levels (21)
DefaultParamsId == 6

CallerParamsId == 13

AllReturnsId == 16

UserParamsId == 20

PortfolioLevelsId == 21

InitialHeap(user_keys) ==
    LET hustle   == [present |-> TRUE, enabled |-> TRUE, trigger_age_max |-> StartAge + 2,
                     portfolio_threshold |-> 1, extra_income |-> 2 * Unit, duration |-> 1]
        spending == [present |-> TRUE, enabled |-> TRUE, drop_threshold |-> 1,
                     recovery_threshold |-> 2, reduced_spending |-> 2 * Unit,
                     lean_spending |-> Unit, lean_age |-> StartAge + 2]
        mortality == [enabled |-> TRUE, health_class |-> "average",
                      tech_scenario |-> "moderate", healthy_lifestyle_factor |-> None]
        phases   == << [start_age |-> StartAge + 1, end_age |-> StartAge + 2,
                        amount |-> 2 * Unit] >>
        windfall == << [age |-> StartAge + 2, amount |-> Unit] >>
        dict(first, portfolio) ==
            [starting_portfolio |-> portfolio, annual_expenses |-> 4 * Unit,
             expected_return |-> 1, inflation |-> 0, volatility |-> 0,
             start_age |-> StartAge, end_age |-> StartAge + 2,
             income_phases |-> first, windfalls |-> first + 1,
             emergency_hustle |-> first + 2, spending_rules |-> first + 3,
             mortality |-> first + 4]
        user == [starting_portfolio |-> 6 * Unit, end_age |-> StartAge + 1,
                 inflation |-> 1, income_phases |-> 17, emergency_hustle |-> 18,
                 mortality |-> 19]
    IN << phases, windfall, hustle, spending, mortality, dict(1, 12 * Unit),
          FINNISH_MALE_MORTALITY,
          <<>>, windfall, [hustle EXCEPT !.duration = 2], spending,
          [mortality EXCEPT !.enabled = FALSE], dict(8, 8 * Unit),
          <<-1, 2>>, <<2, 2>>, <<14, 15>>,
          <<>>, [enabled |-> FALSE], [health_class |-> "excellent"],
          [k \in user_keys |-> user[k]],
          <<10 * Unit, 12 * Unit, 16 * Unit>> >>

\* The keys of the request: none, the numbers, all
UserKeySets ==
    { {}, {"starting_portfolio", "end_age", "inflation"},
      {"starting_portfolio", "end_age", "inflation", "income_phases",
       "emergency_hustle", "mortality"} }

\* The sequences that generate_random_returns draws for a batch: one trial,
\* or two
GeneratedReturns == { << <<-1, 2>> >>, << <<2, 2>>, <<-1, -1>> >> }

\* The number of calls in a sequence of calls
MaxCalls == 2

\* Nothing has been called yet; params_ids are the params dicts at hand
InitFrame ==
    /\ params \in {P \in ValidBatchParams : P.end_age = StartAge + 1}
    /\ years = params.end_age - params.start_age
    /\ sim = InitSim(params)
    /\ pc = "idle"
    /\ result = NoResult
    /\ \E user_keys \in UserKeySets :
          batch = [kind |-> "frame", inputs |-> InitialHeap(user_keys),
                   heap |-> InitialHeap(user_keys), sims |-> <<>>,
                   params_ids |-> {CallerParamsId}, calls |-> <<>>]
    /\ results = <<>>
    /\ death_ages = <<>>
    /\ outcomes = NoOutcomes
    /\ bpc = "calls"

\* The state after a call that left the machine M
AfterCall(fn, M, ids) ==
    /\ batch' = [batch EXCEPT !.heap = M.heap, !.sims = M.sims,
                              !.params_ids = ids,
                              !.calls = Append(batch.calls, fn)]
    /\ UNCHANGED <<results, death_ages, outcomes, bpc>>
    /\ UNCHANGED simVars

CanCall == bpc = "calls" /\ batch.kind = "frame" /\ Len(batch.calls) < MaxCalls

Machine == [heap |-> batch.heap, sims |-> batch.sims]

CallRunSimulation ==
    /\ CanCall
    /\ \E p \in batch.params_ids, returns \in {14, 15} :
           AfterCall("run_simulation", SimulationCall(Machine, p, returns),
                     batch.params_ids)

CallRunMonteCarlo ==
    /\ CanCall
    /\ \E p \in batch.params_ids, generated \in GeneratedReturns :
           AfterCall("run_monte_carlo", MonteCarloCall(Machine, p, generated),
                     batch.params_ids)

CallRunSimulationWithCustomReturns ==
    /\ CanCall
    /\ \E p \in batch.params_ids :
           AfterCall("run_simulation_with_custom_returns",
                     CustomReturnsCall(Machine, p, AllReturnsId), batch.params_ids)

\* find_required_portfolio: the loop body for one or two midpoints
CallFindRequiredPortfolio ==
    /\ CanCall
    /\ \E p \in batch.params_ids, generated \in GeneratedReturns,
          mids \in {<<10 * Unit>>, <<10 * Unit, 9 * Unit>>} :
           AfterCall("find_required_portfolio",
                     TestPortfolios(Machine, p, mids, generated, 1), batch.params_ids)

\* calculate_legacy_tradeoff(base_params, portfolio_levels) with the caller's
\* list of levels
CallCalculateLegacyTradeoff ==
    /\ CanCall
    /\ \E p \in batch.params_ids :
           AfterCall("calculate_legacy_tradeoff",
                     TestPortfolios(Machine, p, batch.heap[PortfolioLevelsId],
                                    << <<2, 2>> >>, 1),
                     batch.params_ids)

\* _merge_user_params(user_params, include_market_params); the merged dict
\* is a params dict for the calls that follow
CallMergeUserParams ==
    /\ CanCall
    /\ \E include_market_params \in BOOLEAN :
           LET merged == merge_user_params(batch.heap, DefaultParamsId, UserParamsId,
                                           include_market_params)
           IN AfterCall("_merge_user_params",
                        [heap |-> merged.heap, sims |-> batch.sims],
                        batch.params_ids \cup {merged.id})

NextFrame ==
    \/ CallRunSimulation
    \/ CallRunMonteCarlo
    \/ CallRunSimulationWithCustomReturns
    \/ CallFindRequiredPortfolio
    \/ CallCalculateLegacyTradeoff
    \/ CallMergeUserParams

SpecFrame == InitFrame /\ [][NextFrame]_vars

\* ------------------------------------- a crash in year one and a flat sequence
\* baseline_returns(years, annual_return)
baseline_returns(n, annual_return) == [i \in 1..n |-> annual_return]

\* A variant whose first year gains what it should lose: -crash_size.
crash_year_one_gain(n, crash_size, recovery_return) ==
    IF n < 1 THEN <<>>
    ELSE <<0 - crash_size>> \o baseline_returns(n - 1, recovery_return)

\* crash_year_one(years, crash_size, recovery_return)
crash_year_one(n, crash_size, recovery_return) ==
    IF n < 1 THEN <<>>
    ELSE <<crash_size>> \o baseline_returns(n - 1, recovery_return)

\* Return rates of the two sequences: -150%, -100%, -50%, 0%, +100%
CrashRates == {-3, -2, -1, 0, 2}

\* An emergency hustle that triggers below the starting portfolio
CrashHustle ==
    [present |-> TRUE, enabled |-> TRUE, trigger_age_max |-> StartAge + 2,
     portfolio_threshold |-> 2, extra_income |-> 2 * Unit, duration |-> 1]

\* The plans of the compared runs: without and with income, with the hustle
\* absent, switched off by its flag, or enabled, and the spending rules
\* absent or switched off
CrashParamSets ==
    [ starting_portfolio : {5 * Unit, 8 * Unit},
      annual_expenses    : AnnualExpenses,
      start_age          : {StartAge},
      end_age            : {StartAge + MaxYears},
      inflation_rate     : InflationRates,
      income_phases      : IncomePhaseLists,
      windfalls          : {<<>>},
      emergency_hustle   : {NoHustle, CrashHustle, Disabled(CrashHustle)},
      spending_rules     : {NoSpendingRules} \cup
                           { Disabled(S) : S \in SpendingRuleConfigs \ {NoSpendingRules} } ]

\* run_simulation is about to be fed crash_year_one(years, crash_size,
\* recovery_return) and the flat sequence of recovery_return
InitCrash ==
    /\ params \in CrashParamSets
    /\ years \in 0..MaxYears
    /\ sim = InitSim(params)
    /\ pc = "idle"
    /\ result = NoResult
    /\ \E crash_size \in CrashRates, recovery_return \in CrashRates :
          batch = [kind |-> "crash", crash_size |-> crash_size,
                   recovery_return |-> recovery_return,
                   crash |-> <<>>, flat |-> <<>>]
    /\ results = <<>>
    /\ death_ages = <<>>
    /\ outcomes = NoOutcomes
    /\ bpc = "scenario"

\* The two sequences are generated
GenerateSequences ==
    /\ bpc = "scenario"
    /\ batch.kind = "crash"
    /\ batch' = [batch EXCEPT
                    !.crash = crash_year_one(years, batch.crash_size,
                                             batch.recovery_return),
                    !.flat = baseline_returns(years, batch.recovery_return)]
    /\ bpc' = "generated"
    /\ UNCHANGED <<results, death_ages, outcomes>>
    /\ UNCHANGED simVars

\* The run on the crash sequence
RunCrash ==
    /\ bpc = "generated"
    /\ results' = <<run_simulation(params, batch.crash)>>
    /\ bpc' = "crashed"
    /\ UNCHANGED <<batch, death_ages, outcomes>>
    /\ UNCHANGED simVars

\* The run on the flat sequence, all else the same
RunFlat ==
    /\ bpc = "crashed"
    /\ results' = Append(results, run_simulation(params, batch.flat))
    /\ bpc' = "both_run"
    /\ UNCHANGED <<batch, death_ages, outcomes>>
    /\ UNCHANGED simVars

NextCrash == GenerateSequences \/ RunCrash \/ RunFlat

SpecCrash == InitCrash /\ [][NextCrash]_vars

\* =================================================================
\* Properties of a single run (specification Spec)
\* =================================================================

\* The ages start_age, start_age + 1, ..., start_age + n as a list
AgesUpTo(n) == [i \in 1..(n + 1) |-> params.start_age + i - 1]

\* C1: every result of run_simulation on a return sequence of length `years`
\* has years + 1 ages and years + 1 portfolio values, and its ages are
\* start_age, start_age + 1, ..., start_age + years, ruined or not.
C1_TrajectoryLength ==
    pc = "returned" =>
        /\ Len(result.ages) = years + 1
        /\ Len(result.portfolio_values) = years + 1
        /\ result.ages = AgesUpTo(years)

\* A run ruined in its first year, with two years left to pad, has returned.
C1_Witness ==
    /\ pc = "returned"
    /\ years = MaxYears
    /\ result.ruin_age = params.start_age + 1

\* C2: ruin_age is the age of the first year whose updated portfolio is <= 0;
\* the slots after that year hold 0 and no later year is processed (the
\* loop has stopped: nothing at an age above ruin_age is added, triggered or
\* logged); ruin_age is None exactly when every updated portfolio is > 0.
C2_RuinStopsTheRun ==
    LET pv == sim.portfolio_values
        k == sim.ruin_age - params.start_age
    IN IF sim.ruin_age = None
       THEN \A i \in 2..Len(pv) : pv[i] > 0
       ELSE /\ k \in 1..years
            /\ pv[k + 1] <= 0
            /\ \A i \in 2..k : pv[i] > 0
            /\ \A i \in (k + 2)..Len(pv) : pv[i] = 0
            /\ sim.year_index = k
            /\ sim.current_age = sim.ruin_age
            /\ sim.hustle_activation_age <= sim.ruin_age
            /\ \A i \in DOMAIN sim.spending_changes :
                   sim.spending_changes[i].age <= sim.ruin_age
            /\ ~ENABLED SimYear

\* A run ruined before its last year whose later years had a windfall
\* scheduled and a hustle that could still trigger.
C2_Witness ==
    /\ pc = "returned"
    /\ years = MaxYears
    /\ sim.ruin_age = params.start_age + 1
    /\ params.windfalls # <<>>
    /\ HustleEnabled(params.emergency_hustle)
    /\ ~sim.hustle_triggered

\* C3: a year turns the portfolio p (after the windfall) into
\* p * (1 + return_rate) - max(0, expenses - (income + hustle_income)):
\* growth first, a withdrawal that is never negative, no surplus income added.
C3_SingleYearUpdate ==
    sim.year_index >= 1 =>
        LET grown_times_one == sim.checked_portfolio * (One + sim.return_rate)
            need == sim.year_expenses - (sim.income + sim.extra_hustle_income)
            withdrawal == IF need > 0 THEN need ELSE 0
        IN /\ One * (sim.portfolio + withdrawal) = grown_times_one
           /\ One * sim.portfolio <= grown_times_one

\* A year whose income exceeded its expenses, with a return that is not 0.
C3_Witness ==
    /\ sim.year_index >= 1
    /\ sim.income + sim.extra_hustle_income > sim.year_expenses
    /\ sim.return_rate # 0
    /\ sim.checked_portfolio > 0

\* A step of the loop: one more year has been processed
YearStep == pc = "loop" /\ sim'.year_index = sim.year_index + 1

\* The hustle's trigger condition on the year recorded in s: the age is at
\* most trigger_age_max and the checked portfolio is below
\* starting_portfolio * portfolio_threshold
HustleCondition(s) ==
    /\ s.current_age <= params.emergency_hustle.trigger_age_max
    /\ One * s.checked_portfolio
         < params.starting_portfolio * params.emergency_hustle.portfolio_threshold

\* C4: with the hustle enabled, it triggers in the first year in which
\* current_age <= trigger_age_max and the portfolio (after the year's
\* windfall, before its growth) is below starting_portfolio *
\* portfolio_threshold, and in no year before; once triggered it stays
\* triggered, keeps its activation age and its countdown never goes up.
C4_HustleTriggersOnce ==
    [][ (YearStep /\ HustleEnabled(params.emergency_hustle)) =>
          /\ sim'.checked_portfolio
               = sim.portfolio + (IF sim'.windfall > 0 THEN sim'.windfall ELSE 0)
          /\ (~sim.hustle_triggered /\ HustleCondition(sim')) =>
                 /\ sim'.hustle_triggered
                 /\ sim'.hustle_activation_age = sim'.current_age
          /\ (~sim.hustle_triggered /\ ~HustleCondition(sim')) =>
                 /\ ~sim'.hustle_triggered
                 /\ sim'.hustle_activation_age = None
          /\ sim.hustle_triggered =>
                 /\ sim'.hustle_triggered
                 /\ sim'.hustle_activation_age = sim.hustle_activation_age
                 /\ sim'.hustle_years_remaining <= sim.hustle_years_remaining
      ]_vars

\* A year after the countdown has reached 0 in which the trigger condition
\* holds again.
C4_Witness ==
    /\ HustleEnabled(params.emergency_hustle)
    /\ sim.hustle_triggered
    /\ sim.hustle_activation_age < sim.current_age
    /\ sim.hustle_years_remaining = 0
    /\ ~sim.hustle_income_added
    /\ HustleCondition(sim)

\* C5: after a trigger at age A with duration d, hustle income (extra_income
\* times the inflation multiplier of the year) is added in the processed
\* years of age A .. A + d - 1 and in no other year, and the countdown
\* after the year of age a in that window is A + d - 1 - a (0 afterwards).
C5_HustleIncomeYears ==
    sim.year_index >= 1 =>
        LET h == params.emergency_hustle
            A == sim.hustle_activation_age
            k == sim.year_index
            in_window == /\ A # None
                         /\ A <= sim.current_age
                         /\ sim.current_age <= A + h.duration - 1
        IN /\ sim.hustle_income_added <=> in_window
           /\ sim.extra_hustle_income * Pow(One, k - 1)
                = IF in_window
                  THEN h.extra_income * Pow(One + params.inflation_rate, k - 1)
                  ELSE 0
           /\ sim.hustle_years_remaining
                = IF A = None THEN 0 ELSE Max(0, A + h.duration - 1 - sim.current_age)

\* The second and last year of a two-year hustle, under inflation.
C5_Witness ==
    /\ sim.hustle_activation_age # None
    /\ params.emergency_hustle.duration = 2
    /\ sim.current_age = sim.hustle_activation_age + 1
    /\ sim.hustle_income_added
    /\ sim.hustle_years_remaining = 0
    /\ params.inflation_rate > 0

\* C6: in a year in which hustle income is added the spending rules are not
\* evaluated: the spending state does not change, so no transition is
\* logged at that year's age.
C6_NoSpendingChangeInHustleYear ==
    sim.hustle_income_added =>
        \A i \in DOMAIN sim.spending_changes :
            sim.spending_changes[i].age # sim.current_age

\* The dead zone of the spending rules on the year recorded in s
DeadZone(s) ==
    /\ params.starting_portfolio * params.spending_rules.drop_threshold
         <= One * s.checked_portfolio
    /\ One * s.checked_portfolio
         < params.starting_portfolio * params.spending_rules.recovery_threshold

\* C7: in an evaluated year whose portfolio p satisfies
\* starting_portfolio * drop_threshold <= p < starting_portfolio *
\* recovery_threshold, the spending state is left as it was and no
\* transition is logged.
C7_Hysteresis ==
    [][ (YearStep /\ sim'.rules_evaluated /\ DeadZone(sim')) =>
          /\ sim'.spending_state = sim.spending_state
          /\ sim'.spending_changes = sim.spending_changes
      ]_vars

\* An evaluated year in the dead zone that ends in state reduced or lean.
C7_Witness ==
    /\ sim.rules_evaluated
    /\ DeadZone(sim)
    /\ sim.spending_state \in {"reduced", "lean"}

\* C8: in an evaluated year, with p the portfolio recorded for the year
\* before plus the year's windfall (if positive): the state is lean if
\* p < starting_portfolio * drop_threshold and current_age >= lean_age,
\* reduced if p is below that and current_age < lean_age, and normal if
\* p >= starting_portfolio * recovery_threshold.
C8_NextSpendingState ==
    (sim.year_index >= 1 /\ sim.rules_evaluated) =>
        LET rules == params.spending_rules
            p == sim.portfolio_values[sim.year_index]
                 + (IF sim.windfall > 0 THEN sim.windfall ELSE 0)
            below == One * p < params.starting_portfolio * rules.drop_threshold
            above == One * p >= params.starting_portfolio * rules.recovery_threshold
        IN /\ (below /\ sim.current_age >= rules.lean_age) => sim.spending_state = "lean"
           /\ (below /\ sim.current_age < rules.lean_age) => sim.spending_state = "reduced"
           /\ above => sim.spending_state = "normal"

\* A drop below the threshold in the year of age lean_age, under inflation.
C8_Witness ==
    /\ sim.year_index >= 1
    /\ sim.rules_evaluated
    /\ sim.current_age = params.spending_rules.lean_age
    /\ sim.spending_state = "lean"
    /\ params.inflation_rate > 0

\* =================================================================
\* Properties of a batch (specification SpecBatch)
\* =================================================================

\* C9: an orchestrator asked for N trials classifies each of them into
\* exactly one outcome: the counts survived_to_end, died_with_money and
\* ran_out_of_money are natural numbers that add up to N, with mortality
\* enabled or disabled.
C9_EveryTrialClassified ==
    bpc = "classified" =>
        LET m == outcomes.mortality
        IN /\ m.survived_to_end \in Nat
           /\ m.died_with_money \in Nat
           /\ m.ran_out_of_money \in Nat
           /\ m.survived_to_end + m.died_with_money + m.ran_out_of_money
                = batch.num_simulations

\* A classified batch of MaxTrials trials under mortality in which a death
\* fell in the ruin year of a ruined trial and another trial died with money.
C9_Witness ==
    /\ bpc = "classified"
    /\ batch.mortality_enabled
    /\ batch.num_simulations = MaxTrials
    /\ outcomes.mortality.died_with_money >= 1
    /\ \E i \in DOMAIN results :
           /\ results[i].ruin_age # None
           /\ death_ages[i] = results[i].ruin_age

\* The ruined trials of the batch
Ruined == {i \in DOMAIN results : results[i].ruin_age # None}

\* The ruined trials whose death came strictly before the ruin
RuinedDiedBefore ==
    {i \in Ruined : /\ batch.mortality_enabled
                    /\ death_ages[i] # None
                    /\ death_ages[i] < results[i].ruin_age}

\* C10: a ruined trial counts as ran_out_of_money when mortality is disabled
\* or its death age is None or >= ruin_age (a death in the ruin year
\* included), and as died_with_money only when its death age is strictly
\* below ruin_age: ran_out_of_money is the number of the former, and in a
\* batch of ruined trials died_with_money is the number of the latter.
C10_RuinedTrialOutcome ==
    bpc = "classified" =>
        LET m == outcomes.mortality
        IN /\ m.ran_out_of_money = Cardinality(Ruined \ RuinedDiedBefore)
           /\ Ruined = DOMAIN results =>
                  /\ m.died_with_money = Cardinality(RuinedDiedBefore)
                  /\ m.survived_to_end = 0

\* A classified batch of ruined trials under mortality: one died in its
\* ruin year, another before its ruin.
C10_Witness ==
    /\ bpc = "classified"
    /\ batch.mortality_enabled
    /\ Ruined = DOMAIN results
    /\ RuinedDiedBefore # {}
    /\ \E i \in Ruined : death_ages[i] = results[i].ruin_age

\* The trials of the batch whose simulation survived
SurvivedTrials == {i \in DOMAIN results : results[i].ruin_age = None}

\* C11: a survived trial counts as survived_to_end when mortality is
\* disabled or its death age is None, and as died_with_money exactly when
\* its death age is not None and below end_age: survived_to_end is the
\* number of the former, and in a batch of survived trials died_with_money
\* is the number of the latter.
C11_SurvivedTrialOutcome ==
    bpc = "classified" =>
        LET m == outcomes.mortality
            no_death == {i \in SurvivedTrials : death_ages[i] = None}
            died_before_end == {i \in SurvivedTrials :
                                   /\ death_ages[i] # None
                                   /\ death_ages[i] < params.end_age}
        IN /\ m.survived_to_end = Cardinality(no_death)
           /\ SurvivedTrials = DOMAIN results =>
                  m.died_with_money = Cardinality(died_before_end)

\* C12 as stated: in a batch with mortality disabled ran_out_of_money ==
\* failure_count, died_with_money == 0, survived_to_end is the number of
\* survived trials and real_failure_rate == 1 - success_rate.
C12_DisabledIdentitiesExact ==
    (bpc = "classified" /\ ~batch.mortality_enabled) =>
        LET m == outcomes.mortality
        IN /\ m.ran_out_of_money = outcomes.failure_count
           /\ m.died_with_money = 0
           /\ m.survived_to_end = Cardinality(SurvivedTrials)
           /\ m.real_failure_rate = FloatOneMinus(outcomes.success_rate)

\* C12, amended: in a batch of N trials with mortality disabled
\* ran_out_of_money == failure_count, died_with_money == 0, survived_to_end
\* is the number of survived trials, real_failure_rate is the float
\* failure_count / N and success_rate the float (N - failure_count) / N;
\* real_failure_rate == 1 - success_rate whenever failure_count / N is
\* exact in binary (N a power of two among them).
C12_DisabledIdentities ==
    (bpc = "classified" /\ ~batch.mortality_enabled) =>
        LET m == outcomes.mortality
            N == batch.num_simulations
            failure_count == Cardinality(Ruined)
        IN /\ m.ran_out_of_money = outcomes.failure_count
           /\ outcomes.failure_count = failure_count
           /\ m.died_with_money = 0
           /\ m.survived_to_end = Cardinality(SurvivedTrials)
           /\ m.real_failure_rate = FloatDiv(failure_count, N)
           /\ outcomes.success_rate = FloatDiv(N - failure_count, N)
           /\ N \in {1, 2, 4} =>
                  m.real_failure_rate = FloatOneMinus(outcomes.success_rate)

\* A classified batch of three trials without mortality, one of them ruined:
\* the rates are the floats 1/3 and 2/3.
C12_Witness ==
    /\ bpc = "classified"
    /\ ~batch.mortality_enabled
    /\ batch.num_simulations = 3
    /\ Cardinality(Ruined) = 1
    /\ outcomes.mortality.real_failure_rate # FloatOneMinus(outcomes.success_rate)

\* =================================================================
\* Properties of two runs (specification SpecPair)
\* =================================================================

\* C13 as stated: of two runs that differ only in starting_portfolio, the
\* one with the larger starting_portfolio never has a smaller final
\* portfolio value and is never ruined when the other survives.
C13_MonotoneInStart ==
    bpc = "compared" =>
        /\ results[2].final_portfolio >= results[1].final_portfolio
        /\ results[1].ruin_age = None => results[2].ruin_age = None

\* Neither the hustle nor the spending rules are enabled in params
NoRulesEnabled ==
    /\ ~(params.emergency_hustle.present /\ params.emergency_hustle.enabled)
    /\ ~(params.spending_rules.present /\ params.spending_rules.enabled)

\* C13, amended: of two runs that differ only in starting_portfolio, with
\* the hustle and the spending rules not enabled, the one with the larger
\* starting_portfolio is never ruined when the other survives, is never
\* ruined at an earlier age, and when it survives its final portfolio value
\* is not smaller.
C13_MonotoneWithoutRules ==
    (bpc = "compared" /\ NoRulesEnabled) =>
        LET small == results[1]
            large == results[2]
        IN /\ small.ruin_age = None => large.ruin_age = None
           /\ (small.ruin_age # None /\ large.ruin_age # None) =>
                  large.ruin_age >= small.ruin_age
           /\ large.ruin_age = None =>
                  large.final_portfolio >= small.final_portfolio

\* Two compared runs with a hustle present but not enabled: the smaller
\* fell below the hustle's threshold in its first year and is ruined, the
\* larger survived all MaxYears years.
C13_Witness ==
    /\ bpc = "compared"
    /\ NoRulesEnabled
    /\ params.emergency_hustle.present
    /\ years = MaxYears
    /\ results[1].ruin_age # None
    /\ results[2].ruin_age = None
    /\ results[1].portfolio_values[2]
         < Mul(params.starting_portfolio, params.emergency_hustle.portfolio_threshold)

\* =================================================================
\* More properties of a batch (specification SpecBatch)
\* =================================================================

\* Parameters the error taxonomy calls invalid
InvalidParameter(P) ==
    \/ P.starting_portfolio <= 0
    \/ P.annual_expenses <= 0
    \/ P.start_age >= P.end_age

\* C15: a batch whose params have a non-positive starting_portfolio, a
\* non-positive annual_expenses or start_age >= end_age is rejected before
\* any trial is simulated: no trial result exists and no classified
\* outcomes are returned.
C15_InvalidParamsRejected ==
    InvalidParameter(params) =>
        /\ results = <<>>
        /\ bpc # "classified"

\* =================================================================
\* Properties of the stress scenarios (specification SpecScenario)
\* =================================================================

\* The eight stress-scenario keys
EightScenarioKeys ==
    {"japan_lost_decades", "sequence_risk_early_crash",
     "climate_transition_shock", "stagflation_1970s", "great_depression",
     "secular_stagnation", "rising_rates_regime", "euro_crisis_finland"}

\* C16: for a scenario_id that is none of the eight keys both
\* generate_scenario_returns and get_scenario_metadata raise ValueError and
\* return nothing; for each of the eight keys both return: num_sims
\* sequences of `years` returns, or the key's metadata.
C16_UnknownScenarioIsError ==
    bpc = "called" =>
        IF batch.scenario_id \in EightScenarioKeys
        THEN /\ outcomes.call.raised = "none"
             /\ outcomes.call.returned
             /\ outcomes.fn = "generate_scenario_returns" =>
                    /\ Len(outcomes.call.value) = batch.num_sims
                    /\ \A s \in DOMAIN outcomes.call.value :
                           Len(outcomes.call.value[s]) = batch.years
             /\ outcomes.fn = "get_scenario_metadata" =>
                    outcomes.call.value = STRESS_SCENARIOS[batch.scenario_id]
        ELSE /\ outcomes.call.raised = "ValueError"
             /\ ~outcomes.call.returned

\* generate_scenario_returns has been called for MaxTrials sequences with an
\* id that is a key followed by a space.
C16_Witness ==
    /\ bpc = "called"
    /\ batch.scenario_id = "great_depression "
    /\ batch.num_sims = MaxTrials
    /\ outcomes.fn = "generate_scenario_returns"
    /\ outcomes.call.raised = "ValueError"

\* =================================================================
\* Properties of the mortality model (specification SpecQx)
\* =================================================================

\* C17: _get_qx with a health_class outside {excellent, average, impaired}
\* returns what it returns with 'average', and with a tech_scenario outside
\* {conservative, moderate, optimistic} what it returns with 'moderate',
\* at every age and years_from_retirement, and raises nothing.
C17_UnknownEnumFallsBack ==
    bpc = "called" =>
        LET health_class == IF batch.health_class \in {"excellent", "average", "impaired"}
                            THEN batch.health_class ELSE "average"
            tech_scenario == IF batch.tech_scenario \in {"conservative", "moderate", "optimistic"}
                             THEN batch.tech_scenario ELSE "moderate"
        IN /\ outcomes.call.raised = "none"
           /\ outcomes.call.returned
           /\ outcomes.call.value
                = get_qx(batch.age, FINNISH_MALE_MORTALITY, health_class,
                         tech_scenario, batch.years_from_retirement)

\* _get_qx was called with an unknown health class and an unknown tech
\* scenario at an age and a year where the classes and the scenarios differ.
C17_Witness ==
    /\ bpc = "called"
    /\ batch.health_class = "good"
    /\ batch.tech_scenario = "pessimistic"
    /\ batch.age = 64
    /\ batch.years_from_retirement = MaxYears
    /\ outcomes.call.value
         # get_qx(64, FINNISH_MALE_MORTALITY, "excellent", "moderate", MaxYears)
    /\ outcomes.call.value
         # get_qx(64, FINNISH_MALE_MORTALITY, "average", "conservative", MaxYears)

\* =================================================================
\* More properties of a single run (specification Spec)
\* =================================================================

\* C18: in the year of age a the sum of the amounts of all windfalls
\* scheduled at a is added to the portfolio left by the year before, once,
\* before the hustle check, the spending-rule check and the growth (the
\* checks and the growth work on the portfolio with the sum added);
\* windfalls at other ages add nothing.
C18_WindfallSumAdded ==
    sim.year_index >= 1 =>
        LET k == sim.year_index
            scheduled == get_windfall_for_age(params.start_age + k, params.windfalls)
        IN /\ sim.current_age = params.start_age + k
           /\ sim.checked_portfolio = sim.portfolio_values[k] + scheduled
           /\ sim.portfolio
                = simulate_single_year(sim.checked_portfolio, sim.return_rate,
                                       sim.year_expenses,
                                       sim.income + sim.extra_hustle_income)

\* The income phases that cover the age, by their place in the list
MatchingPhases(age) ==
    {i \in DOMAIN params.income_phases :
        /\ params.income_phases[i].start_age <= age
        /\ age <= params.income_phases[i].end_age}

\* The amount of the first phase of the list that covers the age, else 0
FirstMatchingAmount(age) ==
    IF MatchingPhases(age) = {} THEN 0
    ELSE LET first == CHOOSE i \in MatchingPhases(age) :
                          \A j \in MatchingPhases(age) : i <= j
         IN params.income_phases[first].amount

\* C19: the income of the k-th simulated year is the amount of the first
\* income phase in list order with start_age <= current_age <= end_age (0
\* when none matches) times (1 + inflation)^(k - 1).
C19_IncomeOfYear ==
    sim.year_index >= 1 =>
        LET k == sim.year_index
        IN sim.income * Pow(One, k - 1)
             = FirstMatchingAmount(params.start_age + k)
                 * Pow(One + params.inflation_rate, k - 1)

\* The second year of a run with inflation, at an age that two phases with
\* different amounts cover.
C19_Witness ==
    /\ sim.year_index = 2
    /\ params.inflation_rate > 0
    /\ Cardinality(MatchingPhases(sim.current_age)) = 2
    /\ params.income_phases[1].amount # params.income_phases[2].amount
    /\ sim.income > params.income_phases[1].amount

\* ------------------------------------------------ Properties of percentiles
\* The values of the trials at year index y (1-based: y = 1 is the start)
YearValues(y) == [r \in DOMAIN results |-> results[r].portfolio_values[y]]

FinalPortfolios == [r \in DOMAIN results |-> results[r].final_portfolio]

\* v is the element at 0-based index idx of the ascending order of values:
\* it occurs in values, at most idx values are smaller, more than idx are
\* not larger
AtSortedIndex(values, idx, v) ==
    /\ \E i \in DOMAIN values : values[i] = v
    /\ Cardinality({i \in DOMAIN values : values[i] < v}) <= idx
    /\ Cardinality({i \in DOMAIN values : values[i] <= v}) > idx

\* min(floor(N * p / 100), N - 1)
ClampedIndex(N, p) ==
    LET floor == (N * p) \div 100
    IN IF floor <= N - 1 THEN floor ELSE N - 1

\* C20: every percentile an orchestrator reports is the element at index
\* min(floor(N * p / 100), N - 1) of the ascending order of the N trials'
\* values: the 5th, median and 95th final-portfolio percentiles (and the
\* five of the command-line summary) over final_portfolio, and each
\* trajectory pP, P in {5, 10, 15, 25, 50, 75, 95}, at each year index over
\* that year's portfolio values, with years + 1 entries, years being the
\* length of the batch's return sequences.
C20_PercentilesBySortedIndex ==
    bpc = "classified" =>
        LET N == Len(results)
        IN /\ AtSortedIndex(FinalPortfolios, ClampedIndex(N, 5),
                            outcomes.final.percentile_5_final)
           /\ AtSortedIndex(FinalPortfolios, ClampedIndex(N, 50),
                            outcomes.final.median_final)
           /\ AtSortedIndex(FinalPortfolios, ClampedIndex(N, 95),
                            outcomes.final.percentile_95_final)
           /\ DOMAIN outcomes.percentiles.p = {5, 10, 15, 25, 50, 75, 95}
           /\ \A P \in DOMAIN outcomes.percentiles.p :
                  LET trajectory == outcomes.percentiles.p[P]
                  IN /\ Len(trajectory) = batch.seq_len + 1
                     /\ \A y \in DOMAIN trajectory :
                            AtSortedIndex(YearValues(y), ClampedIndex(N, P),
                                          trajectory[y])
           /\ batch.kind # "historical" =>
                  LET s == outcomes.cli_summary
                  IN /\ AtSortedIndex(FinalPortfolios, ClampedIndex(N, 5), s.percentile_5)
                     /\ AtSortedIndex(FinalPortfolios, ClampedIndex(N, 25), s.percentile_25)
                     /\ AtSortedIndex(FinalPortfolios, ClampedIndex(N, 50), s.median_final)
                     /\ AtSortedIndex(FinalPortfolios, ClampedIndex(N, 75), s.percentile_75)
                     /\ AtSortedIndex(FinalPortfolios, ClampedIndex(N, 95), s.percentile_95)

\* A batch of three trials with three different final portfolios, not in
\* ascending order, one of them ruined: the 5th percentile, the median and
\* the 95th are three different values, of the finals and of the last year
C20_Witness ==
    /\ bpc = "classified"
    /\ Len(results) = 3
    /\ batch.seq_len = 2
    /\ results[1].final_portfolio > results[2].final_portfolio
    /\ NotSurvived(results[2])
    /\ outcomes.final.percentile_5_final < outcomes.final.median_final
    /\ outcomes.final.median_final < outcomes.final.percentile_95_final
    /\ outcomes.percentiles.p[5][3] < outcomes.percentiles.p[50][3]
    /\ outcomes.percentiles.p[50][3] < outcomes.percentiles.p[95][3]

\* -------------------------------------- Properties of the example lists
\* The number of i in S with key[i] = k, for a function key
CountOf(key, k) == Cardinality({i \in DOMAIN key : key[i] = k})

\* The listed keys are in non-decreasing order, each listed key belongs to
\* as many candidates at least, and every candidate with a key smaller than
\* a listed one is listed
EarliestOf(listed_keys, candidate_keys) ==
    /\ \A i \in DOMAIN listed_keys : \A j \in DOMAIN listed_keys :
           i < j => listed_keys[i] <= listed_keys[j]
    /\ \A i \in DOMAIN listed_keys :
           CountOf(listed_keys, listed_keys[i]) <= CountOf(candidate_keys, listed_keys[i])
    /\ \A i \in DOMAIN listed_keys : \A c \in DOMAIN candidate_keys :
           candidate_keys[c] < listed_keys[i] =>
               CountOf(listed_keys, candidate_keys[c]) = CountOf(candidate_keys, candidate_keys[c])

RuinedResults == SelectSeq(results, NotSurvived)

\* The survived trials whose smallest value is below the threshold
QualifyingResults(threshold) ==
    LET Qualifies(r) ==
            /\ r.ruin_age = None
            /\ \E i \in DOMAIN r.portfolio_values : r.portfolio_values[i] < threshold
    IN SelectSeq(results, Qualifies)

SmallestValue(r) ==
    CHOOSE v \in {r.portfolio_values[i] : i \in DOMAIN r.portfolio_values} :
        \A i \in DOMAIN r.portfolio_values : v <= r.portfolio_values[i]

\* C21: the failure list holds min(max_examples, number of ruined trials)
\* entries (max_examples is 30 in the orchestrators), each the trajectory of
\* a ruined trial, in non-decreasing ruin_age order, and no omitted ruined
\* trial has a smaller ruin_age than a listed one; the close-call list holds
\* at most max_examples entries (10 in the orchestrators), each of a
\* survived trial whose minimum is below the threshold, in non-decreasing
\* order of the minimum, and no omitted qualifying trial has a smaller
\* minimum than a listed one.
C21_ExampleLists ==
    bpc = "called" =>
        LET listed == outcomes.value
        IN /\ outcomes.fn = "get_failure_examples" =>
                  /\ Len(listed) = IF Len(RuinedResults) <= outcomes.max_examples
                                   THEN Len(RuinedResults) ELSE outcomes.max_examples
                  /\ \A i \in DOMAIN listed : \E r \in DOMAIN RuinedResults :
                         /\ listed[i].ruin_age = RuinedResults[r].ruin_age
                         /\ listed[i].trajectory = RuinedResults[r].portfolio_values
                  /\ EarliestOf([i \in DOMAIN listed |-> listed[i].ruin_age],
                                [r \in DOMAIN RuinedResults |-> RuinedResults[r].ruin_age])
           /\ outcomes.fn = "get_close_call_examples" =>
                  LET qualifying == QualifyingResults(outcomes.threshold)
                  IN /\ Len(listed) = IF Len(qualifying) <= outcomes.max_examples
                                      THEN Len(qualifying) ELSE outcomes.max_examples
                     /\ \A i \in DOMAIN listed : \E r \in DOMAIN qualifying :
                            /\ listed[i].trajectory = qualifying[r].portfolio_values
                            /\ listed[i].min_value = SmallestValue(qualifying[r])
                     /\ EarliestOf([i \in DOMAIN listed |-> listed[i].min_value],
                                   [r \in DOMAIN qualifying |-> SmallestValue(qualifying[r])])

\* Three ruined trials, the one ruined earliest given last, and a list cut to
\* two entries that begins with it
C21_Witness ==
    /\ bpc = "called"
    /\ outcomes.fn = "get_failure_examples"
    /\ outcomes.max_examples = 2
    /\ Len(RuinedResults) = 3
    /\ results[1].ruin_age > results[3].ruin_age
    /\ results[2].ruin_age > results[3].ruin_age
    /\ Len(outcomes.value) = 2
    /\ outcomes.value[1].ruin_age = results[3].ruin_age

AgesBelowThreshold ==
    { batch.start_age + i - 1 : i \in { k \in DOMAIN batch.survival_by_age :
          ProbLess(batch.survival_by_age[k], batch.survival_threshold) } }

\* The first such age, hard_cap when there is none
CandidateEndAge ==
    IF AgesBelowThreshold = {} THEN batch.hard_cap
    ELSE CHOOSE c \in AgesBelowThreshold : \A a \in AgesBelowThreshold : c <= a

\* C23: calculate_dynamic_end_age returns end_age = max(c, start_age + 10),
\* c being the first age of start_age..hard_cap whose running survival
\* probability, that age's death probability applied, is below
\* survival_threshold, and hard_cap when there is no such age; so the
\* end_age is at least start_age + 10, whatever the table.
C23_DynamicEndAge ==
    (bpc = "returned" /\ batch.kind = "end_age") =>
        /\ Len(batch.survival_by_age) = Max(0, batch.hard_cap - batch.start_age + 1)
        /\ outcomes.end_age = Max(CandidateEndAge, batch.start_age + 10)
        /\ outcomes.end_age >= batch.start_age + 10

\* A returned call on the table of certain death at the first age: the
\* candidate is start_age and the floor of ten years gives the end_age
C23_Witness ==
    /\ bpc = "returned"
    /\ batch.kind = "end_age"
    /\ batch.mortality_table = "certain_death"
    /\ CandidateEndAge = batch.start_age
    /\ outcomes.end_age = batch.start_age + 10

\* =================================================================
\* Properties of the sampled death age (specification SpecSample)
\* =================================================================

\* The death probability of an age in the batch's call of sample_death_age
DeathProbabilityAt(age) ==
    death_prob(get_qx(age, FINNISH_MALE_MORTALITY, batch.health_class,
                      batch.tech_scenario, age - params.start_age))

\* The draw at visit i is below the death probability of the visited age
TriggersAt(i) ==
    ProbLess(batch.visited[i].draw, DeathProbabilityAt(batch.visited[i].age))

\* C24: sample_death_age visits start_age, start_age + 1, ... in ascending
\* order with one draw each and stops at the first age whose draw is below
\* that age's death probability (years_from_retirement = age - start_age):
\* it returns that age, or None after end_age; the result is None or in
\* [start_age, end_age]; an orchestrator has called it once per trial begun
\* when mortality is enabled and never when it is disabled.
C24_SampledDeathAge ==
    batch.kind = "sample" =>
        /\ \A i \in DOMAIN batch.visited :
               /\ batch.visited[i].age = params.start_age + i - 1
               /\ batch.visited[i].age <= params.end_age
               /\ i < Len(batch.visited) => ~TriggersAt(i)
        /\ \A i \in DOMAIN death_ages :
               death_ages[i] = None
                   \/ (params.start_age <= death_ages[i] /\ death_ages[i] <= params.end_age)
        /\ (batch.mortality_enabled /\ ~batch.in_call /\ death_ages # <<>>) =>
               LET n == Len(batch.visited)
                   death_age == death_ages[Len(death_ages)]
               IN /\ n >= 1
                  /\ IF TriggersAt(n)
                     THEN death_age = batch.visited[n].age
                     ELSE death_age = None /\ n = params.end_age - params.start_age + 1
        /\ batch.calls = IF batch.mortality_enabled
                         THEN Len(death_ages) + (IF batch.in_call THEN 1 ELSE 0)
                         ELSE 0
        /\ ~batch.mortality_enabled => \A i \in DOMAIN death_ages : death_ages[i] = None

\* A batch with mortality whose second trial died at the second age, the
\* first age's draw having been the death probability itself
C24_Witness ==
    /\ bpc = "sampled"
    /\ batch.kind = "sample"
    /\ batch.mortality_enabled
    /\ Len(death_ages) = 2
    /\ batch.calls = 2
    /\ death_ages[2] = params.start_age + 1
    /\ batch.visited[1].draw = DeathProbabilityAt(params.start_age)

\* =================================================================
\* Properties of the survival probability (specification SpecSurvival)
\* =================================================================

\* C25: on the reference table, for every health class and tech scenario
\* and a fixed start_age, calculate_survival_probability is strictly
\* decreasing in end_age up to 110: the value returned for end_age is below
\* the value of every shorter range (the loop's value after that range's
\* last age) and below 1, every death probability lying strictly between 0
\* and 1 (the adjusted qx between 0 and 1000).
C25_SurvivalStrictlyDecreasing ==
    (bpc = "returned" /\ batch.kind = "survival") =>
        \A hc \in KnownHealthClasses :
            /\ outcomes.value[hc] = batch.by_age[Len(batch.by_age)].survival_prob[hc]
            /\ ProbLess(outcomes.value[hc], ProbOne)
            /\ \A i \in DOMAIN batch.by_age :
                   /\ batch.by_age[i].age = batch.start_age + i - 1
                   /\ ProbLess(ProbZero, batch.by_age[i].death_prob[hc])
                   /\ ProbLess(batch.by_age[i].death_prob[hc], ProbOne)
                   /\ i < Len(batch.by_age) =>
                          ProbLess(outcomes.value[hc], batch.by_age[i].survival_prob[hc])

\* A returned call over the whole table, 47..110
C25_Witness ==
    /\ bpc = "returned"
    /\ batch.kind = "survival"
    /\ batch.start_age = 47
    /\ batch.end_age = MaxAge
    /\ Len(batch.by_age) = 64
    /\ ProbLess(ProbZero, outcomes.value["impaired"])

\* C26: on the reference table and for one tech_scenario, a call of
\* calculate_survival_probability over a range start_age..end_age that
\* holds an age below 100 returns strictly more for health_class
\* 'excellent' than for 'impaired'.
C26_ExcellentOutlivesImpaired ==
    (bpc = "returned" /\ batch.kind = "survival"
        /\ \E age \in batch.start_age..batch.end_age : age < 100) =>
        ProbLess(outcomes.value["impaired"], outcomes.value["excellent"])

\* The returned calls over 47..95
C26_Witness ==
    /\ bpc = "returned"
    /\ batch.kind = "survival"
    /\ batch.start_age = 47
    /\ batch.end_age = 95
    /\ ProbLess(outcomes.value["impaired"], outcomes.value["average"])
    /\ ProbLess(outcomes.value["average"], outcomes.value["excellent"])

\* =================================================================
\* Properties of the mortality configuration (specification SpecLegacy)
\* =================================================================

\* The 'mortality' entry of the batch's params dict, {} without one
GivenMortalityConfig ==
    IF "mortality" \in DOMAIN batch.params THEN batch.params["mortality"] ELSE <<>>

\* The configuration carries a healthy_lifestyle_factor that is not null
HasLegacyFactor ==
    /\ "healthy_lifestyle_factor" \in DOMAIN GivenMortalityConfig
    /\ GivenMortalityConfig["healthy_lifestyle_factor"] # None

ListsOf(i) ==
    {batch.sims[i].portfolio_values, batch.sims[i].ages}
        \cup (IF batch.sims[i].spending_changes = None THEN {}
              ELSE {batch.sims[i].spending_changes})

\* C28: after any sequence of calls of run_simulation, run_monte_carlo,
\* run_simulation_with_custom_returns, find_required_portfolio,
\* calculate_legacy_tradeoff and _merge_user_params, every object that
\* existed before the calls (the caller's params dict and its nested lists
\* and dicts, the return sequences, DEFAULT_PARAMS, the mortality table,
\* the request's user_params) is as it was, and the lists of each
\* run_simulation result are objects created by that call, shared with no
\* other result.
C28_InputsUnchanged ==
    batch.kind = "frame" =>
        /\ \A id \in DOMAIN batch.inputs : batch.heap[id] = batch.inputs[id]
        /\ \A i \in DOMAIN batch.sims :
               /\ \A id \in ListsOf(i) : id > Len(batch.inputs)
               /\ batch.sims[i].portfolio_values # batch.sims[i].ages
               /\ \A j \in DOMAIN batch.sims : j # i => ListsOf(i) \cap ListsOf(j) = {}

\* A request with nested configs has been merged, and the merged dict, which
\* holds the request's own income_phases list, has been searched
C28_Witness ==
    /\ batch.kind = "frame"
    /\ batch.calls = <<"_merge_user_params", "find_required_portfolio">>
    /\ \E p \in batch.params_ids :
           /\ p # CallerParamsId
           /\ batch.heap[p]["income_phases"] = 17
           /\ batch.heap[batch.heap[p]["emergency_hustle"]]["enabled"] = FALSE
    /\ Len(batch.sims) >= 2
    /\ Len(batch.heap) > Len(batch.inputs) + 12

\* =================================================================
\* Properties of the order of the trials (specification SpecOrder)
\* =================================================================

\* The trials of the batch in the order pi: trial pi[i] comes i-th
Reordered(trials, pi) == [i \in DOMAIN trials |-> trials[pi[i]]]

\* The statistics of the summary that the orchestrator computes from the
\* lists rs and ds (lines 707-723 and the two helpers)
AggregatesOf(rs, ds) ==
    LET mortality == classify_mortality_outcomes(rs, ds, batch.mortality_enabled)
    IN [ success_rate     |-> FloatDiv(Len(SelectSeq(rs, Survived)), Len(rs)),
         failure_count    |-> Len(SelectSeq(rs, NotSurvived)),
         final            |-> final_percentiles(rs),
         percentiles      |-> calculate_percentile_trajectories(rs),
         survived_to_end  |-> mortality.survived_to_end,
         died_with_money  |-> mortality.died_with_money,
         ran_out_of_money |-> mortality.ran_out_of_money ]

\* The same statistics as the batch reported them
ReportedAggregates ==
    [ success_rate     |-> outcomes.success_rate,
      failure_count    |-> outcomes.failure_count,
      final            |-> outcomes.final,
      percentiles      |-> outcomes.percentiles,
      survived_to_end  |-> outcomes.mortality.survived_to_end,
      died_with_money  |-> outcomes.mortality.died_with_money,
      ran_out_of_money |-> outcomes.mortality.ran_out_of_money ]

\* C29: the aggregate statistics of a batch are those of its trials in any
\* other order: for every permutation of the (result, death age) pairs,
\* success_rate, failure_count, the final-portfolio percentiles, every
\* percentile trajectory and the counts survived_to_end, died_with_money
\* and ran_out_of_money computed from the permuted lists equal the reported
\* ones.
C29_OrderIndependent ==
    bpc = "classified" =>
        \A pi \in Permutations(DOMAIN results) :
            AggregatesOf(Reordered(results, pi), Reordered(death_ages, pi))
                = ReportedAggregates

\* A batch with mortality of three trials whose final portfolios are not in
\* ascending order, the second ruined, the first ended by death, the third
\* alive at the end: reordering changes the lists
C29_Witness ==
    /\ bpc = "classified"
    /\ batch.mortality_enabled
    /\ Len(results) >= 3
    /\ results[1].final_portfolio > results[2].final_portfolio
    /\ results[3].final_portfolio > results[2].final_portfolio
    /\ ~Survived(results[2])
    /\ death_ages[1] # None
    /\ death_ages[3] = None
    /\ outcomes.mortality.survived_to_end = 1
    /\ outcomes.mortality.died_with_money >= 1
    /\ outcomes.mortality.ran_out_of_money >= 1

\* =================================================================
\* Properties of a crash in year one (specification SpecCrash)
\* =================================================================

\* The case of the comparison: no income, no windfalls, hustle and spending
\* rules disabled, a positive starting portfolio, crash_size below
\* recovery_return and recovery_return at least -100%; both runs are done
CrashCase ==
    /\ bpc = "both_run"
    /\ params.income_phases = <<>>
    /\ params.windfalls = <<>>
    /\ ~params.emergency_hustle.enabled
    /\ ~params.spending_rules.enabled
    /\ params.starting_portfolio > 0
    /\ batch.crash_size < batch.recovery_return
    /\ batch.recovery_return >= 0 - One

\* When the flat run is ruined the crash run is ruined, not later
RuinedNotLater ==
    results[2].ruin_age # None =>
        /\ results[1].ruin_age # None
        /\ results[1].ruin_age <= results[2].ruin_age

\* C30 as stated: in that case the crash trajectory is at every year <= the
\* flat trajectory, and when the flat run is ruined the crash run is ruined
\* at a ruin_age that is not later.
C30_CrashBelowFlat ==
    CrashCase =>
        /\ \A i \in DOMAIN results[1].portfolio_values :
               results[1].portfolio_values[i] <= results[2].portfolio_values[i]
        /\ RuinedNotLater

\* C30, amended: in that case the crash trajectory is <= the flat trajectory
\* at every year up to the crash run's ruin_age (at every year when it is
\* not ruined), and when the flat run is ruined the crash run is ruined at
\* a ruin_age that is not later.
C30_CrashBelowFlatUntilRuin ==
    CrashCase =>
        /\ Len(results[1].portfolio_values) = Len(results[2].portfolio_values)
        /\ \A i \in DOMAIN results[1].portfolio_values :
               (results[1].ruin_age = None \/ results[1].ages[i] <= results[1].ruin_age)
                   => results[1].portfolio_values[i] <= results[2].portfolio_values[i]
        /\ RuinedNotLater

\* The crash run is ruined in the first year and filled with zeros; the flat
\* run is ruined a year later, with a negative portfolio
C30_Witness ==
    /\ CrashCase
    /\ years >= 2
    /\ results[1].ruin_age = StartAge + 1
    /\ results[2].ruin_age = StartAge + 2
    /\ results[2].portfolio_values[3] < 0
    /\ results[1].portfolio_values[3] = 0

\* =================================================================
\* Properties of the spending log and the outcome flags (specification Spec)
\* =================================================================

\* The log of the run so far
Log == sim.spending_changes

\* The log is a chain of changes from 'normal' to the present state
LogIsChain ==
    /\ \A i \in DOMAIN Log : Log[i].from # Log[i].to
    /\ Log # <<>> => Log[1].from = "normal"
    /\ \A i \in DOMAIN Log : i > 1 =>
           /\ Log[i].from = Log[i - 1].to
           /\ Log[i].age > Log[i - 1].age
    /\ sim.spending_state = (IF Log = <<>> THEN "normal" ELSE Log[Len(Log)].to)

\* C31: the spending log is a faithful history of the spending state.  In
\* every year the log grows by one entry exactly when the year is evaluated
\* and changes the state, and the entry holds the year's age, the state
\* before and after, and the portfolio that was compared with the
\* thresholds (last year's portfolio plus a positive windfall); in a year
\* that is not evaluated the state stays.  At all times every entry has
\* from # to, the first has from = 'normal', each later one starts where
\* the one before ended, and the ages strictly increase.
C31_TransitionLog ==
    /\ []LogIsChain
    /\ [][ YearStep =>
             IF sim'.rules_evaluated /\ sim'.spending_state # sim.spending_state
             THEN sim'.spending_changes =
                      Append(sim.spending_changes,
                             [age       |-> params.start_age + sim'.year_index,
                              from      |-> sim.spending_state,
                              to        |-> sim'.spending_state,
                              portfolio |-> sim.portfolio
                                  + (IF sim'.windfall > 0 THEN sim'.windfall ELSE 0)])
             ELSE /\ sim'.spending_changes = sim.spending_changes
                  /\ sim'.spending_state = sim.spending_state
         ]_vars

\* A log of two entries, normal to reduced and reduced to lean in the year
\* after, in a run that has ended
C31_Witness ==
    /\ pc = "returned"
    /\ Len(Log) = 2
    /\ Log[1].to = "reduced"
    /\ Log[2].to = "lean"
    /\ Log[2].age = Log[1].age + 1

\* C39: the flags of a returned SimulationResult agree with the run:
\* hustle_activated holds exactly when hustle_activation_age is not None;
\* spending_reduced holds exactly when the run logged a transition, and
\* spending_changes is None exactly when it logged none; spending_went_lean
\* holds exactly when some logged transition has to = 'lean'; and
\* spending_went_lean implies spending_reduced.
C39_OutcomeFlags ==
    pc = "returned" =>
        /\ result.hustle_activated <=> result.hustle_activation_age # None
        /\ result.spending_reduced <=> Log # <<>>
        /\ result.spending_changes.is_none <=> Log = <<>>
        /\ ~result.spending_changes.is_none => result.spending_changes.items = Log
        /\ result.spending_went_lean <=> \E i \in DOMAIN Log : Log[i].to = "lean"
        /\ result.spending_went_lean => result.spending_reduced

\* A returned run whose hustle was activated and whose log has a transition
\* to reduced and none to lean
C39_Witness ==
    /\ pc = "returned"
    /\ result.hustle_activated
    /\ result.spending_reduced
    /\ ~result.spending_went_lean
    /\ ~result.spending_changes.is_none

ThresholdsAtMostOne ==
    /\ params.starting_portfolio > 0
    /\ HustleEnabled(params.emergency_hustle)
           => params.emergency_hustle.portfolio_threshold <= One
    /\ (params.spending_rules.present /\ params.spending_rules.enabled)
           => params.spending_rules.drop_threshold <= One

\* The sum of the windfalls scheduled at the age
WindfallAt(age) ==
    LET at == {i \in DOMAIN params.windfalls : params.windfalls[i].age = age}
        amount[S \in SUBSET at] ==
            IF S = {} THEN 0
            ELSE LET i == CHOOSE i \in S : TRUE
                 IN params.windfalls[i].amount + amount[S \ {i}]
    IN amount[at]

\* C38: with starting_portfolio > 0, portfolio_threshold <= 1 and
\* drop_threshold <= 1, the portfolio checked in the first simulated year
\* is the starting portfolio plus the year's windfall if positive, the
\* hustle is not triggered there and the spending state stays normal; so an
\* activation age is at least start_age + 2 and at most trigger_age_max,
\* and every logged transition has an age of at least start_age + 2.
C38_NothingInFirstYear ==
    ThresholdsAtMostOne =>
        /\ sim.year_index = 1 =>
               /\ sim.checked_portfolio = params.starting_portfolio
                      + Max(0, WindfallAt(params.start_age + 1))
               /\ ~sim.hustle_triggered
               /\ sim.hustle_activation_age = None
               /\ sim.spending_state = "normal"
               /\ Log = <<>>
        /\ sim.hustle_activation_age # None =>
               /\ sim.hustle_activation_age >= params.start_age + 2
               /\ sim.hustle_activation_age <= params.emergency_hustle.trigger_age_max
        /\ \A i \in DOMAIN Log : Log[i].age >= params.start_age + 2

\* Both thresholds are 100%, the first year had no windfall, and the second
\* year triggered the hustle; the run logged a transition afterwards
C38_Witness ==
    /\ ThresholdsAtMostOne
    /\ HustleEnabled(params.emergency_hustle)
    /\ params.emergency_hustle.portfolio_threshold = One
    /\ params.spending_rules.enabled
    /\ params.spending_rules.drop_threshold = One
    /\ params.windfalls = <<>>
    /\ sim.hustle_activation_age = params.start_age + 2
    /\ Log # <<>>

\* =================================================================
\* Properties of the recorded values (specification Spec)
\* =================================================================

\* The index in portfolio_values of the ruin year of the run recorded in s
RuinIndex(s) == s.ruin_age - params.start_age + 1

\* C37: for a positive starting portfolio and a sequence of at least one
\* year, every recorded value before the ruin year is > 0, the value of
\* the ruin year is the outcome of that year's update as computed, <= 0,
\* and every later value is 0; so a returned run survived exactly when
\* its final_portfolio is > 0, and its final_portfolio is negative only
\* when the ruin year is the last year of the sequence.
C37_RecordedValues ==
    (params.starting_portfolio > 0 /\ years >= 1) =>
        /\ sim.ruin_age = None =>
               \A i \in DOMAIN sim.portfolio_values : sim.portfolio_values[i] > 0
        /\ sim.ruin_age # None =>
               /\ Len(sim.portfolio_values) = years + 1
               /\ \A i \in DOMAIN sim.portfolio_values :
                      /\ i < RuinIndex(sim) => sim.portfolio_values[i] > 0
                      /\ i > RuinIndex(sim) => sim.portfolio_values[i] = 0
               /\ sim.portfolio_values[RuinIndex(sim)] <= 0
               /\ sim.portfolio_values[RuinIndex(sim)] =
                      Mul(sim.checked_portfolio, One + sim.return_rate)
                          - Max(0, sim.year_expenses - sim.income - sim.extra_hustle_income)
        /\ pc = "returned" =>
               /\ Survived(result) <=> result.final_portfolio > 0
               /\ result.final_portfolio < 0 =>
                      result.ruin_age = params.start_age + years

\* A returned run ruined before its last year with a negative value, and
\* zeros after it
C37_Witness ==
    /\ pc = "returned"
    /\ params.starting_portfolio > 0
    /\ result.ruin_age # None
    /\ result.ruin_age < params.start_age + years
    /\ result.portfolio_values[RuinIndex(result)] < 0
    /\ result.final_portfolio = 0

\* =================================================================
\* Properties of a run in state normal (specification SpecRules)
\* =================================================================

\* C35: while the run with spending rules enabled has logged no transition
\* (its state never left normal), it and the run with the rules disabled
\* have the same recorded values, ages, ruin_age and hustle outcome, and in
\* both the expenses of the k-th simulated year are
\* annual_expenses * (1 + inflation)^(k - 1), in evaluated years and in
\* years that skip the rules because of the hustle; the returned results
\* agree in the same way.
C35_NormalIsRulesOff ==
    (batch.kind = "rules" /\ sim.spending_changes = <<>>) =>
        LET other == batch.other
            k     == sim.year_index
        IN /\ other.year_index = k
           /\ sim.portfolio_values = other.portfolio_values
           /\ sim.ages = other.ages
           /\ sim.ruin_age = other.ruin_age
           /\ sim.hustle_triggered = other.hustle_triggered
           /\ sim.hustle_activation_age = other.hustle_activation_age
           /\ k >= 1 =>
                  /\ sim.year_expenses * Pow(One, k - 1)
                         = params.annual_expenses * Pow(One + params.inflation_rate, k - 1)
                  /\ other.year_expenses = sim.year_expenses
           /\ bpc = "both_returned" =>
                  /\ results[1].portfolio_values = results[2].portfolio_values
                  /\ results[1].ruin_age = results[2].ruin_age
                  /\ results[1].final_portfolio = results[2].final_portfolio
                  /\ results[1].hustle_activated = results[2].hustle_activated
                  /\ results[1].hustle_activation_age = results[2].hustle_activation_age

\* Three years under inflation in state normal: a hustle year that skipped
\* the rules, then an evaluated year
C35_Witness ==
    /\ bpc = "both_returned"
    /\ sim.spending_changes = <<>>
    /\ sim.year_index = 3
    /\ params.inflation_rate > 0
    /\ sim.hustle_triggered
    /\ sim.hustle_activation_age < sim.current_age
    /\ sim.rules_evaluated
    /\ ~sim.hustle_income_added

\* =================================================================
\* Properties of the value a search returns (specification SpecSearch)
\* =================================================================

\* C32: the value find_required_portfolio returns is a starting_portfolio
\* for which a batch run during the search reported
\* success_rate >= target_certainty.
C32_ReturnedReachesTarget ==
    (bpc = "returned" /\ batch.kind = "search" /\ batch.fn = "find_required_portfolio") =>
        \E i \in DOMAIN batch.passed : batch.passed[i] = outcomes.returned

\* =================================================================
\* Properties of the reported survival (specification SpecEndAge)
\* =================================================================

\* The running survival probability after applying mortality through age,
\* for an age of the loop
SurvivalThrough(age) == batch.survival_by_age[age - batch.start_age + 1]

\* C33: in the result of calculate_dynamic_end_age, survival_at_end is the
\* survival probability at the returned end_age, the running survival
\* probability after applying mortality through end_age (as a percentage
\* with two decimals), also when end_age is below hard_cap.
C33_SurvivalAtEndAge ==
    (bpc = "returned" /\ batch.kind = "end_age" /\ outcomes.end_age <= batch.hard_cap) =>
        outcomes.survival_at_end = RoundPercent(SurvivalThrough(outcomes.end_age))

\* =================================================================
\* Properties of the projection of fire_assessment (specification SpecProjection)
\* =================================================================

\* The numbers of projected years after which the projected portfolio is
\* at least the required one
YearsAtRequired ==
    { k \in 0..(Len(batch.projection) - 1) : batch.projection[k + 1] >= batch.required }

\* C34: in the year-by-year projection, fire_age = current_age + k and
\* years_to_fire = k are reported whenever the projected portfolio first
\* reaches the required portfolio after k <= 60 projected years, 'FIRE not
\* reachable within 60 years' with a null fire_age is reported only when the
\* projected portfolio is still below the required one after 60 projected
\* years, and the loop stops after at most 60 iterations.
C34_ProjectionReport ==
    (batch.kind = "projection" /\ ~CannotReach) =>
        /\ batch.years <= max_years
        /\ Len(batch.projection) = batch.years + 1
        /\ bpc = "responded" =>
              /\ \A k \in YearsAtRequired :
                     (k <= max_years /\ \A j \in YearsAtRequired : k <= j) =>
                         /\ outcomes.fire_age = batch.current_age + k
                         /\ outcomes.years_to_fire = k
              /\ outcomes.projection_note = "FIRE not reachable within 60 years" =>
                     /\ outcomes.fire_age = None
                     /\ batch.years = max_years
                     /\ batch.projection[max_years + 1] < batch.required

\* =================================================================
\* Properties of the outcomes under mortality (specification SpecBatch)
\* =================================================================

\* Every sampled death age of the batch is None
NoDeathSampled == \A i \in DOMAIN death_ages : death_ages[i] = None

\* a <= b, for two rates
RateAtMost(a, b) == a = b \/ Less(a, b)

\* C40 as stated: with mortality enabled ran_out_of_money <= failure_count,
\* survived_to_end <= the number of survived trials and
\* real_failure_rate <= 1 - success_rate, with equality throughout when
\* every sampled death age is None.
C40_ReclassifiedExact ==
    (bpc = "classified" /\ batch.mortality_enabled) =>
        LET m == outcomes.mortality
        IN /\ m.ran_out_of_money <= outcomes.failure_count
           /\ m.survived_to_end <= Cardinality(SurvivedTrials)
           /\ RateAtMost(m.real_failure_rate, FloatOneMinus(outcomes.success_rate))
           /\ NoDeathSampled =>
                  /\ m.ran_out_of_money = outcomes.failure_count
                  /\ m.survived_to_end = Cardinality(SurvivedTrials)
                  /\ m.real_failure_rate = FloatOneMinus(outcomes.success_rate)

\* C40, amended: with mortality enabled, in a batch of N trials
\* ran_out_of_money <= failure_count, survived_to_end <= the number of
\* survived trials and real_failure_rate <= the float failure_count / N,
\* with equality throughout when every sampled death age is None;
\* real_failure_rate <= 1 - success_rate, and its equality, whenever
\* failure_count / N is exact in binary (N a power of two among them).
C40_Reclassified ==
    (bpc = "classified" /\ batch.mortality_enabled) =>
        LET m == outcomes.mortality
            N == batch.num_simulations
            failure_count == Cardinality(Ruined)
        IN /\ outcomes.failure_count = failure_count
           /\ m.ran_out_of_money <= failure_count
           /\ m.survived_to_end <= Cardinality(SurvivedTrials)
           /\ RateAtMost(m.real_failure_rate, FloatDiv(failure_count, N))
           /\ N \in {1, 2, 4} =>
                  RateAtMost(m.real_failure_rate, FloatOneMinus(outcomes.success_rate))
           /\ NoDeathSampled =>
                  /\ m.ran_out_of_money = failure_count
                  /\ m.survived_to_end = Cardinality(SurvivedTrials)
                  /\ m.real_failure_rate = FloatDiv(failure_count, N)
                  /\ N \in {1, 2, 4} =>
                         m.real_failure_rate = FloatOneMinus(outcomes.success_rate)

\* A classified batch of three trials under mortality in which a death
\* before the ruin moved a ruined trial to died_with_money and a death
\* moved a survived trial there, a third trial being a true failure.
C40_Witness ==
    /\ bpc = "classified"
    /\ batch.mortality_enabled
    /\ batch.num_simulations = 3
    /\ outcomes.mortality.ran_out_of_money = 1
    /\ outcomes.failure_count = 2
    /\ outcomes.mortality.survived_to_end = 0
    /\ Cardinality(SurvivedTrials) = 1
    /\ Less(outcomes.mortality.real_failure_rate, FloatOneMinus(outcomes.success_rate))

====
